---- MODULE Spec2Model ----
(***************************************************************************)
(* Model of the limine-rs boot-protocol bindings: request statics, the     *)
(* response slot the bootloader fills in, and the accessors that turn      *)
(* bootloader-supplied pointers into references.                           *)
(*                                                                         *)
(* Two revisions of the library are modelled side by side:                 *)
(*   api = "request"  src/src/request.rs + response.rs (impl_base_fns!)    *)
(*   api = "lib"      src/src/lib.rs (make_struct!, Ptr<T>, NonNullPtr<T>) *)
(*                                                                         *)
(* A u64 identifier word is a tuple of four 16-bit limbs, most significant *)
(* first, so that the protocol's 64-bit magic numbers are represented      *)
(* exactly.  Addresses are naturals, 0 being the null address.             *)
(***************************************************************************)
EXTENDS Integers, Naturals, Sequences, FiniteSets, TLC

VARIABLES
  phase,            \* "build" (const construction), "boot" (bootloader runs), "run" (after control transfer)
  req,              \* the request static
  heap,             \* bootloader-owned memory: address -> object
  obs,              \* outcome of the last library call
  bootloader_wrote, \* history: what the bootloader stored into the response slot
  cores,            \* multiprocessor start-up: what each logical processor is doing
  store_buffer,     \* the boot processor's stores that have not reached shared memory yet
  clock             \* history: how many stores the boot processor has issued

vars == <<phase, req, heap, obs, bootloader_wrote, cores, store_buffer, clock>>

\* before any processor descriptor is touched there is one processor and no pending store
Uniprocessor == cores = <<>> /\ store_buffer = <<>> /\ clock = 0

(***************************** bounds ************************************)
MaxRev == 1
MaxVal == 1
MaxAddr == 2
MaxLen == 2

(************************ Option<T> ***************************************)
None == <<>>
Some(x) == <<x>>
is_some(o) == Len(o) = 1
unwrap(o) == o[1]

(************************ values of field types ****************************)
null == 0
NoFields == [f \in {} |-> 0]
Mode_FOUR_LEVEL == 0
Mode_DEFAULT == Mode_FOUR_LEVEL
Mode_MIN == Mode_FOUR_LEVEL
RequestFlags_empty == 0
dummy == <<"fn", 0>>
Ptr_DEFAULT == null

(************************ request.rs: the request types ********************)
request_rs ==
  [
    BootloaderInfoRequest |->
      [latest |-> 0, first |-> <<\Hf550, \H38d8, \He2a1, \H202f>>,
       second |-> <<\H2794, \H26fc, \Hf5f5, \H9740>>,
       fields |-> NoFields],
    FirmwareTypeRequest |->
      [latest |-> 0, first |-> <<\H8c2f, \H75d9, \H0bef, \H28a8>>,
       second |-> <<\H7045, \Ha468, \H8eac, \H00c3>>,
       fields |-> NoFields],
    StackSizeRequest |->
      [latest |-> 0, first |-> <<\H224e, \Hf046, \H0a8e, \H8926>>,
       second |-> <<\He1cb, \H0fc2, \H5f46, \Hea3d>>,
       fields |-> [size |-> 0]],
    HhdmRequest |->
      [latest |-> 0, first |-> <<\H48dc, \Hf1cb, \H8ad2, \Hb852>>,
       second |-> <<\H6398, \H4e95, \H9a98, \H244b>>,
       fields |-> NoFields],
    FramebufferRequest |->
      [latest |-> 0, first |-> <<\H9d58, \H27dc, \Hd881, \Hdd75>>,
       second |-> <<\Ha314, \H8604, \Hf6fa, \Hb11b>>,
       fields |-> NoFields],
    PagingModeRequest |->
      [latest |-> 1, first |-> <<\H95c1, \Ha0ed, \Hab09, \H44cb>>,
       second |-> <<\Ha4e5, \Hcb38, \H42f7, \H488a>>,
       fields |-> [mode |-> Mode_DEFAULT, max_mode |-> Mode_DEFAULT, min_mode |-> Mode_MIN]],
    SmpRequest |->
      [latest |-> 0, first |-> <<\H95a6, \H7b81, \H9a1b, \H857e>>,
       second |-> <<\Ha0b6, \H1b72, \H3b6a, \H73e0>>,
       fields |-> [flags |-> RequestFlags_empty]],
    MemoryMapRequest |->
      [latest |-> 0, first |-> <<\H67cf, \H3d9d, \H378a, \H806f>>,
       second |-> <<\He304, \Hacdf, \Hc50c, \H3c62>>,
       fields |-> NoFields],
    EntryPointRequest |->
      [latest |-> 0, first |-> <<\H13d8, \H6c03, \H5a1c, \Hd3e1>>,
       second |-> <<\H2b0c, \Haa89, \Hd8f3, \H026a>>,
       fields |-> [entry_point |-> dummy]],
    KernelFileRequest |->
      [latest |-> 0, first |-> <<\Had97, \He90e, \H83f1, \Hed67>>,
       second |-> <<\H31eb, \H5d1c, \H5ff2, \H3b69>>,
       fields |-> NoFields],
    ModuleRequest |->
      [latest |-> 1, first |-> <<\H3e7e, \H2797, \H02be, \H32af>>,
       second |-> <<\Hca1c, \H4f3b, \Hd128, \H0cee>>,
       fields |-> [internal_module_ct |-> 0, internal_modules |-> null]],
    RsdpRequest |->
      [latest |-> 0, first |-> <<\Hc5e7, \H7b6b, \H397e, \H7b43>>,
       second |-> <<\H2763, \H7845, \Haccd, \Hcf3c>>,
       fields |-> NoFields],
    SmbiosRequest |->
      [latest |-> 0, first |-> <<\H9e90, \H46f1, \H1e09, \H5391>>,
       second |-> <<\Haa4a, \H520f, \Hefbd, \He5ee>>,
       fields |-> NoFields],
    EfiSystemTableRequest |->
      [latest |-> 0, first |-> <<\H5ceb, \Ha516, \H3eaa, \Hf6d6>>,
       second |-> <<\H0a69, \H8161, \H0cf6, \H5fcc>>,
       fields |-> NoFields],
    EfiMemoryMapRequest |->
      [latest |-> 0, first |-> <<\H7df6, \H2a43, \H1d68, \H72d5>>,
       second |-> <<\Ha4fc, \Hdfb3, \He573, \H06c8>>,
       fields |-> NoFields],
    BootTimeRequest |->
      [latest |-> 0, first |-> <<\H5027, \H46e1, \H84c0, \H88aa>>,
       second |-> <<\Hfbc5, \Hec83, \He632, \H7893>>,
       fields |-> NoFields],
    KernelAddressRequest |->
      [latest |-> 0, first |-> <<\H71ba, \H7686, \H3cc5, \H5f63>>,
       second |-> <<\Hb264, \H4a48, \Hc516, \Ha487>>,
       fields |-> NoFields],
    DeviceTreeBlobRequest |->
      [latest |-> 0, first |-> <<\Hb40d, \Hdb48, \Hfb54, \Hbac7>>,
       second |-> <<\H5450, \H8149, \H3f81, \Hffb7>>,
       fields |-> NoFields]
  ]

(************************ lib.rs: make_struct! invocations *****************)
lib_rs ==
  [
    BootInfoRequest |->
      [id1 |-> <<\Hf550, \H38d8, \He2a1, \H202f>>,
       id2 |-> <<\H2794, \H26fc, \Hf5f5, \H9740>>,
       fields |-> NoFields],
    StackSizeRequest |->
      [id1 |-> <<\H224e, \Hf046, \H0a8e, \H8926>>,
       id2 |-> <<\He1cb, \H0fc2, \H5f46, \Hea3d>>,
       fields |-> [stack_size |-> 0]],
    HhdmRequest |->
      [id1 |-> <<\H48dc, \Hf1cb, \H8ad2, \Hb852>>,
       id2 |-> <<\H6398, \H4e95, \H9a98, \H244b>>,
       fields |-> NoFields],
    FramebufferRequest |->
      [id1 |-> <<\H9d58, \H27dc, \Hd881, \Hdd75>>,
       id2 |-> <<\Ha314, \H8604, \Hf6fa, \Hb11b>>,
       fields |-> NoFields],
    TerminalRequest |->
      [id1 |-> <<\Hc8ac, \H5931, \H0c2b, \H0844>>,
       id2 |-> <<\Ha68d, \H0c72, \H65d3, \H8878>>,
       fields |-> [callback |-> Ptr_DEFAULT]],
    Level5PagingRequest |->
      [id1 |-> <<\H9446, \H9551, \Hda9b, \H3192>>,
       id2 |-> <<\Hebe5, \He86d, \Hb738, \H2888>>,
       fields |-> NoFields],
    SmpRequest |->
      [id1 |-> <<\H95a6, \H7b81, \H9a1b, \H857e>>,
       id2 |-> <<\Ha0b6, \H1b72, \H3b6a, \H73e0>>,
       fields |-> [flags |-> 0]],
    MemmapRequest |->
      [id1 |-> <<\H67cf, \H3d9d, \H378a, \H806f>>,
       id2 |-> <<\He304, \Hacdf, \Hc50c, \H3c62>>,
       fields |-> NoFields],
    EntryPointRequest |->
      [id1 |-> <<\H13d8, \H6c03, \H5a1c, \Hd3e1>>,
       id2 |-> <<\H2b0c, \Haa89, \Hd8f3, \H026a>>,
       fields |-> [entry |-> Ptr_DEFAULT]],
    KernelFileRequest |->
      [id1 |-> <<\Had97, \He90e, \H83f1, \Hed67>>,
       id2 |-> <<\H31eb, \H5d1c, \H5ff2, \H3b69>>,
       fields |-> NoFields],
    ModuleRequest |->
      [id1 |-> <<\H3e7e, \H2797, \H02be, \H32af>>,
       id2 |-> <<\Hca1c, \H4f3b, \Hd128, \H0cee>>,
       fields |-> NoFields],
    RsdpRequest |->
      [id1 |-> <<\Hc5e7, \H7b6b, \H397e, \H7b43>>,
       id2 |-> <<\H2763, \H7845, \Haccd, \Hcf3c>>,
       fields |-> NoFields],
    SmbiosRequest |->
      [id1 |-> <<\H9e90, \H46f1, \H1e09, \H5391>>,
       id2 |-> <<\Haa4a, \H520f, \Hefbd, \He5ee>>,
       fields |-> NoFields],
    EfiSystemTableRequest |->
      [id1 |-> <<\H5ceb, \Ha516, \H3eaa, \Hf6d6>>,
       id2 |-> <<\H0a69, \H8161, \H0cf6, \H5fcc>>,
       fields |-> NoFields],
    BootTimeRequest |->
      [id1 |-> <<\H5027, \H46e1, \H84c0, \H88aa>>,
       id2 |-> <<\Hfbc5, \Hec83, \He632, \H7893>>,
       fields |-> NoFields],
    KernelAddressRequest |->
      [id1 |-> <<\H71ba, \H7686, \H3cc5, \H5f63>>,
       id2 |-> <<\Hb264, \H4a48, \Hc516, \Ha487>>,
       fields |-> NoFields],
    DtbRequest |->
      [id1 |-> <<\Hb40d, \Hdb48, \Hfb54, \Hbac7>>,
       id2 |-> <<\H5450, \H8149, \H3f81, \Hffb7>>,
       fields |-> NoFields]
  ]

(************************ request.rs: impl_base_fns!, setter!, magic! ******)
\* faulty variant: the two feature words emitted in the wrong order
magic_swapped(first, second) ==
  << <<\Hc7b1, \Hdd30, \Hdf4c, \H8b88>>, <<\H0a82, \He883, \Ha194, \Hf07b>>,
     second, first >>

magic(first, second) ==
  << <<\Hc7b1, \Hdd30, \Hdf4c, \H8b88>>, <<\H0a82, \He883, \Ha194, \Hf07b>>,
     first, second >>

RequestsStartMarker_new ==
  [id |-> << <<\Hf6b8, \Hf4b3, \H9de7, \Hd1ae>>, <<\Hfab9, \H1a69, \H40fc, \Hb9cf>>,
             <<\H785c, \H6ed0, \H15d3, \He316>>, <<\H181e, \H920a, \H7852, \Hb9d9>> >>]

RequestsEndMarker_new ==
  [id |-> << <<\Hadc0, \He053, \H1bb1, \H0d03>>, <<\H9572, \H709f, \H3176, \H4c62>> >>]

\* faulty variant: the slot starts out as NonNull::dangling() instead of None
Response_none_dangling == null + 1

\* Response::none(): UnsafeCell::new(None); None of Option<NonNull<T>> is the null address
Response_none == null

\* faulty variant: a plain (non-volatile) read, which the compiler folds to the initial None
Response_get_nonvolatile(inner) == None

\* Response::get(): Some(read_volatile(inner)?.as_ref())
Response_get(inner) == IF inner = null THEN None ELSE Some(inner)

\* faulty variant: get_mut() takes the pointer out of the cell (Option::take)
Response_get_mut_take(inner) ==
  [result |-> IF inner = null THEN None ELSE Some(inner), inner |-> null]

\* Response::get_mut(): the reference handed out, and the cell as the call leaves it
Response_get_mut(inner) ==
  [result |-> IF inner = null THEN None ELSE Some(inner), inner |-> inner]

\* faulty variant: SmbiosRequest's magic pasted from RsdpRequest
with_revision_pasted(kind, revision) ==
  [api |-> "request",
   kind |-> kind,
   id |-> IF kind = "SmbiosRequest"
            THEN magic(request_rs.RsdpRequest.first, request_rs.RsdpRequest.second)
            ELSE magic(request_rs[kind].first, request_rs[kind].second),
   revision |-> revision,
   response |-> Response_none,
   fields |-> request_rs[kind].fields]

with_revision(kind, revision) ==
  [api |-> "request",
   kind |-> kind,
   id |-> magic(request_rs[kind].first, request_rs[kind].second),
   revision |-> revision,
   response |-> Response_none,
   fields |-> request_rs[kind].fields]

\* faulty variant: new() asks for revision 0 of every request
new_revision_0(kind) == with_revision(kind, 0)

new(kind) == with_revision(kind, request_rs[kind].latest)

request_id(r) == r.id

request_revision(r) == r.revision

get_response(r) == Response_get(r.response)

get_response_mut(r) == Response_get_mut(r.response)

\* From<u64> for paging::Mode and the identity conversions behind `impl Into<$ty>`
into(value) == value

\* faulty variant: the in-place setter starts again from an unanswered request
setter_set_rebuild(r, field, value) ==
  [r EXCEPT !.response = null, !.fields[field] = into(value)]

\* setter!: pub fn $setter(&mut self, $field: impl Into<$ty>)
setter_set(r, field, value) == [r EXCEPT !.fields[field] = into(value)]

\* setter!: pub const fn $with(mut self, $field: $ty) -> Self
\* faulty variant: the updated copy is dropped and the request returned as it was
setter_with_discard(r, field, value) == r

setter_with(r, field, value) == [r EXCEPT !.fields[field] = value]

\* a &'static [&'static InternalModule]: base address and length
slice_len(s) == s.len
slice_as_ptr(s) == s.ptr

\* faulty variant: the count is updated and the base pointer is left as it was
set_internal_modules_count_only(r, modules) ==
  [r EXCEPT !.fields.internal_module_ct = slice_len(modules)]

set_internal_modules(r, modules) ==
  [r EXCEPT !.fields.internal_module_ct = slice_len(modules),
            !.fields.internal_modules = slice_as_ptr(modules)]

with_internal_modules(r, modules) ==
  [r EXCEPT !.fields.internal_module_ct = slice_len(modules),
            !.fields.internal_modules = slice_as_ptr(modules)]

(************************ lib.rs: Ptr<T> and make_struct! *******************)
Ptr_as_ptr(ptr) == IF ptr = null THEN None ELSE Some(ptr)

\* faulty variant: get() without the null test
Ptr_get_unchecked(ptr) == Some(ptr)

Ptr_get(ptr) == IF ptr = null THEN None ELSE Some(ptr)

Ptr_get_mut(ptr) == IF ptr = null THEN None ELSE Some(ptr)

ID(kind) ==
  << <<\Hc7b1, \Hdd30, \Hdf4c, \H8b88>>, <<\H0a82, \He883, \Ha194, \Hf07b>>,
     lib_rs[kind].id1, lib_rs[kind].id2 >>

make_struct_new(kind, revision) ==
  [api |-> "lib",
   kind |-> kind,
   id |-> ID(kind),
   revision |-> revision,
   response |-> Ptr_DEFAULT,
   fields |-> lib_rs[kind].fields]

\* get_response(): read_volatile copy of the Ptr held in the UnsafeCell
make_struct_get_response(r) == r.response

\* the by-value setter generated for each field
make_struct_field(r, field, value) == [r EXCEPT !.fields[field] = value]

(************************ response.rs: accessors ****************************)
\* a reference is the address it points at; reading through it reads the heap
deref(h, addr) == unwrap(h[addr])

response_revision(resp) == resp.revision

HhdmResponse_offset(resp) == resp.offset

(************************ inputs *******************************************)
Revisions == 0..MaxRev
Addrs == 1..MaxAddr
FnPtrs == {<<"fn", i>> : i \in 0..MaxVal}

\* the statics a program may hand to {set,with}_internal_modules: n modules at an
\* address of the executable image (never null for a Rust slice, even when empty)
StaticSlices == {[ptr |-> MaxAddr + 1 + n, len |-> n] : n \in 0..MaxLen}

FieldValues(field) ==
  IF field = "entry_point" THEN FnPtrs ELSE 0..MaxVal

\* fields configured through setter! (ModuleRequest has hand-written setters)
SetterFields(r) ==
  IF r.kind = "ModuleRequest" THEN {} ELSE DOMAIN r.fields

ConstructedRequests ==
  {new(k) : k \in DOMAIN request_rs}
    \cup {with_revision(k, n) : k \in DOMAIN request_rs, n \in Revisions}
    \cup {make_struct_new(k, n) : k \in DOMAIN lib_rs, n \in Revisions}

\* what the bootloader places in memory for a request it honours
ResponseContents(r) ==
  IF r.kind = "HhdmRequest"
    THEN {[revision |-> n, offset |-> v] : n \in Revisions, v \in 0..MaxVal}
    ELSE {[revision |-> n] : n \in Revisions}

NoObs == [op |-> "none", result |-> None]

(************************ the life of a request static **********************)
Init ==
  /\ Uniprocessor
  /\ phase = "build"
  /\ req \in ConstructedRequests
  /\ heap = [a \in Addrs |-> None]
  /\ obs = NoObs
  /\ bootloader_wrote = None

\* r.with_f(v): functional update while the static is being built
With(f, v) ==
  /\ phase = "build"
  /\ req.api = "request"
  /\ f \in SetterFields(req)
  /\ req' = setter_with(req, f, v)
  /\ obs' = [op |-> "with", result |-> None]
  /\ UNCHANGED <<phase, heap, bootloader_wrote, cores, store_buffer, clock>>

WithInternalModules(m) ==
  /\ phase = "build"
  /\ req.api = "request"
  /\ req.kind = "ModuleRequest"
  /\ req' = with_internal_modules(req, m)
  /\ obs' = [op |-> "with", result |-> None]
  /\ UNCHANGED <<phase, heap, bootloader_wrote, cores, store_buffer, clock>>

\* r.f(v) of the make_struct! revision
Field(f, v) ==
  /\ phase = "build"
  /\ req.api = "lib"
  /\ f \in DOMAIN req.fields
  /\ req' = make_struct_field(req, f, v)
  /\ obs' = [op |-> "with", result |-> None]
  /\ UNCHANGED <<phase, heap, bootloader_wrote, cores, store_buffer, clock>>

\* r.set_f(v): in place, through a &mut Request, before or after control transfer
Set(f, v) ==
  /\ phase \in {"build", "run"}
  /\ req.api = "request"
  /\ f \in SetterFields(req)
  /\ req' = setter_set(req, f, v)
  /\ obs' = [op |-> "set", result |-> None]
  /\ UNCHANGED <<phase, heap, bootloader_wrote, cores, store_buffer, clock>>

SetInternalModules(m) ==
  /\ phase \in {"build", "run"}
  /\ req.api = "request"
  /\ req.kind = "ModuleRequest"
  /\ req' = set_internal_modules(req, m)
  /\ obs' = [op |-> "set", result |-> None]
  /\ UNCHANGED <<phase, heap, bootloader_wrote, cores, store_buffer, clock>>

\* the image is linked and handed to the bootloader
Load ==
  /\ phase = "build"
  /\ phase' = "boot"
  /\ obs' = NoObs
  /\ UNCHANGED <<req, heap, bootloader_wrote, cores, store_buffer, clock>>

\* the bootloader honours the request: it places a response in its own memory and
\* stores the address in the request's response slot
BootloaderAnswer(a, content) ==
  /\ phase = "boot"
  /\ bootloader_wrote = None
  /\ heap[a] = None
  /\ heap' = [heap EXCEPT ![a] = Some(content)]
  /\ req' = [req EXCEPT !.response = a]
  /\ bootloader_wrote' = Some([addr |-> a, content |-> content])
  /\ UNCHANGED <<phase, obs, cores, store_buffer, clock>>

\* control is transferred to the executable's entry point
Transfer ==
  /\ phase = "boot"
  /\ phase' = "run"
  /\ UNCHANGED <<req, heap, obs, bootloader_wrote, cores, store_buffer, clock>>

Executing == phase \in {"build", "run"}

GetResponse ==
  /\ Executing
  /\ obs' = [op |-> "get_response",
             result |-> IF req.api = "request"
                          THEN get_response(req)
                          ELSE Ptr_get(make_struct_get_response(req))]
  /\ UNCHANGED <<phase, req, heap, bootloader_wrote, cores, store_buffer, clock>>

GetResponseMut ==
  /\ Executing
  /\ LET got == IF req.api = "request"
                  THEN get_response_mut(req)
                  ELSE [result |-> Ptr_get_mut(make_struct_get_response(req)),
                        inner |-> req.response]
     IN /\ obs' = [op |-> "get_response_mut", result |-> got.result]
        /\ req' = [req EXCEPT !.response = got.inner]
  /\ UNCHANGED <<phase, heap, bootloader_wrote, cores, store_buffer, clock>>

\* make_struct! revision: get_response() hands out the Ptr, whose as_ptr() is public
GetResponseAsPtr ==
  /\ Executing
  /\ req.api = "lib"
  /\ obs' = [op |-> "as_ptr", result |-> Ptr_as_ptr(make_struct_get_response(req))]
  /\ UNCHANGED <<phase, req, heap, bootloader_wrote, cores, store_buffer, clock>>

GetId ==
  /\ Executing
  /\ req.api = "request"
  /\ obs' = [op |-> "id", result |-> Some(request_id(req))]
  /\ UNCHANGED <<phase, req, heap, bootloader_wrote, cores, store_buffer, clock>>

GetRevision ==
  /\ Executing
  /\ req.api = "request"
  /\ obs' = [op |-> "revision", result |-> Some(request_revision(req))]
  /\ UNCHANGED <<phase, req, heap, bootloader_wrote, cores, store_buffer, clock>>

\* response.revision() on the reference get_response() returned
ResponseRevision ==
  /\ phase = "run"
  /\ LET got == IF req.api = "request"
                  THEN get_response(req)
                  ELSE Ptr_get(make_struct_get_response(req))
     IN /\ is_some(got)
        /\ obs' = [op |-> "response.revision",
                   result |-> Some(response_revision(deref(heap, unwrap(got))))]
  /\ UNCHANGED <<phase, req, heap, bootloader_wrote, cores, store_buffer, clock>>

ResponseOffset ==
  /\ phase = "run"
  /\ req.kind = "HhdmRequest"
  /\ LET got == IF req.api = "request"
                  THEN get_response(req)
                  ELSE Ptr_get(make_struct_get_response(req))
     IN /\ is_some(got)
        /\ obs' = [op |-> "response.offset",
                   result |-> Some(HhdmResponse_offset(deref(heap, unwrap(got))))]
  /\ UNCHANGED <<phase, req, heap, bootloader_wrote, cores, store_buffer, clock>>

Next ==
  \/ \E f \in {"size", "mode", "max_mode", "min_mode", "flags", "entry_point"} :
       \E v \in FieldValues(f) : With(f, v)
  \/ \E m \in StaticSlices : WithInternalModules(m)
  \/ \E f \in {"stack_size", "callback", "flags", "entry"} :
       \E v \in 0..MaxVal : Field(f, v)
  \/ \E f \in {"size", "mode", "max_mode", "min_mode", "flags", "entry_point"} :
       \E v \in FieldValues(f) : Set(f, v)
  \/ \E m \in StaticSlices : SetInternalModules(m)
  \/ Load
  \/ \E a \in Addrs : \E content \in ResponseContents(req) : BootloaderAnswer(a, content)
  \/ Transfer
  \/ GetResponse
  \/ GetResponseMut
  \/ GetResponseAsPtr
  \/ GetId
  \/ GetRevision
  \/ ResponseRevision
  \/ ResponseOffset

Spec == Init /\ [][Next]_vars

(***************************************************************************)
(* Accessors over bootloader-written memory, after control transfer.       *)
(* The heap holds typed objects; a pointer is the address of an object and *)
(* a C string is an object of bytes.  Every call records the addresses it  *)
(* dereferenced and the bytes of the string it read.                       *)
(***************************************************************************)
MaxStr == 3

\* the bytes a string buffer may hold: NUL, 'a', 'b', 'c', and the two bytes of
\* U+00E9 (valid UTF-8 only as the pair 0xC3 0xA9)
Bytes == {0, 97, 98, 99, 195, 169}

RECURSIVE AllSeqs(_, _)
AllSeqs(S, n) ==
  IF n = 0 THEN {<<>>} ELSE {Append(q, b) : q \in AllSeqs(S, n - 1), b \in S}

\* NUL-terminated buffers: the protocol terminates every string it hands out
CStrings == {Append(q, 0) : q \in AllSeqs(Bytes, MaxStr)}

RootAddr == 1
StrAddr == 2
FileAddr == 3

\* libcore strlen(): index of the first NUL, counted from the pointer
RECURSIVE strlen(_, _)
strlen(bytes, i) == IF bytes[i] = 0 THEN 0 ELSE 1 + strlen(bytes, i + 1)

\* CStr::from_ptr(ptr): the bytes from ptr up to and including the first NUL
CStr_from_ptr(h, ptr) == [ptr |-> ptr, len |-> strlen(h[ptr].bytes, 1) + 1]

\* the bytes CStr::from_ptr looked at
CStr_reads(c) == 1..c.len

\* faulty variant: to_bytes_with_nul() in place of to_bytes()
CStr_to_bytes_with_nul(h, c) == SubSeq(h[c.ptr].bytes, 1, c.len)

\* CStr::to_bytes(): without the terminator
CStr_to_bytes(h, c) == SubSeq(h[c.ptr].bytes, 1, c.len - 1)

\* core::str::from_utf8 validation (Unicode table 3-7, well-formed byte sequences)
cont(b) == b >= 128 /\ b <= 191

RECURSIVE valid_utf8(_, _)
valid_utf8(b, i) ==
  LET n == Len(b)
      at(k) == IF i + k <= n THEN b[i + k] ELSE 0
  IN
  IF i > n THEN TRUE
  ELSE IF b[i] < 128 THEN valid_utf8(b, i + 1)
  ELSE IF b[i] >= 194 /\ b[i] <= 223
    THEN cont(at(1)) /\ valid_utf8(b, i + 2)
  ELSE IF b[i] = 224
    THEN at(1) >= 160 /\ at(1) <= 191 /\ cont(at(2)) /\ valid_utf8(b, i + 3)
  ELSE IF (b[i] >= 225 /\ b[i] <= 236) \/ b[i] = 238 \/ b[i] = 239
    THEN cont(at(1)) /\ cont(at(2)) /\ valid_utf8(b, i + 3)
  ELSE IF b[i] = 237
    THEN at(1) >= 128 /\ at(1) <= 159 /\ cont(at(2)) /\ valid_utf8(b, i + 3)
  ELSE IF b[i] = 240
    THEN at(1) >= 144 /\ at(1) <= 191 /\ cont(at(2)) /\ cont(at(3)) /\ valid_utf8(b, i + 4)
  ELSE IF b[i] >= 241 /\ b[i] <= 243
    THEN cont(at(1)) /\ cont(at(2)) /\ cont(at(3)) /\ valid_utf8(b, i + 4)
  ELSE IF b[i] = 244
    THEN at(1) >= 128 /\ at(1) <= 143 /\ cont(at(2)) /\ cont(at(3)) /\ valid_utf8(b, i + 4)
  ELSE FALSE

\* outcomes of a call
Text(bytes) == [tag |-> "text", bytes |-> bytes]
Ref(addr) == [tag |-> "ref", addr |-> addr]
Absent == [tag |-> "none"]
Panic == [tag |-> "panic"]
\* a null pointer was dereferenced: the access traps, or reads whatever is mapped at 0
UndefinedBehaviour == {[tag |-> "ub", how |-> "fault"], [tag |-> "ub", how |-> "garbage"]}

\* CStr::to_str().unwrap(): the text, or a panic when the bytes are not UTF-8
to_str_unwrap(bytes) == IF valid_utf8(bytes, 1) THEN Text(bytes) ELSE Panic

\* unsafe { CStr::from_ptr(self.$field) }.to_bytes(), ptr being a raw pointer that
\* is not checked: the possible outcomes, with the addresses dereferenced
unchecked_from_ptr(h, ptr) ==
  IF ptr = null
    THEN {[result |-> u, derefs |-> {null}, reads |-> {}] : u \in UndefinedBehaviour}
    ELSE LET c == CStr_from_ptr(h, ptr)
         IN {[result |-> Text(CStr_to_bytes(h, c)), derefs |-> {ptr}, reads |-> CStr_reads(c)]}

\* BootloaderInfoResponse::name() / version()
BootloaderInfoResponse_text(h, resp, field) ==
  {IF o.result.tag = "text" THEN [o EXCEPT !.result = to_str_unwrap(o.result.bytes)] ELSE o :
     o \in unchecked_from_ptr(h, resp[field])}

\* File::path() / cmdline(): c_str.to_bytes()
File_text(h, file, field) == unchecked_from_ptr(h, file[field])

\* ExecutableCmdlineResponse::cmdline(): the CStr itself
ExecutableCmdlineResponse_cmdline(h, resp) == unchecked_from_ptr(h, resp.cmdline)

\* InternalModule::path() / cmdline()
InternalModule_text(h, module, field) == unchecked_from_ptr(h, module[field])

\* ExecutableFileResponse::file(): unsafe { &*self.file }
ExecutableFileResponse_file(h, resp) ==
  IF resp.file = null
    THEN {[result |-> u, derefs |-> {null}, reads |-> {}] : u \in UndefinedBehaviour}
    ELSE {[result |-> Ref(resp.file), derefs |-> {resp.file}, reads |-> {}]}

\* Ptr<c_char>::to_str(): Some(CStr::from_ptr(self.as_ptr()?))
Ptr_to_str(h, ptr) ==
  IF Ptr_as_ptr(ptr) = None
    THEN {[result |-> Absent, derefs |-> {}, reads |-> {}]}
    ELSE LET c == CStr_from_ptr(h, unwrap(Ptr_as_ptr(ptr)))
         IN {[result |-> Text(CStr_to_bytes(h, c)), derefs |-> {ptr}, reads |-> CStr_reads(c)]}

\* Ptr<File>::get() on KernelFileResponse::kernel_file
Ptr_get_ref(ptr) ==
  IF Ptr_get(ptr) = None
    THEN {[result |-> Absent, derefs |-> {}, reads |-> {}]}
    ELSE {[result |-> Ref(unwrap(Ptr_get(ptr))), derefs |-> {ptr}, reads |-> {}]}

StrPtrs == {null, StrAddr}
FilePtrs == {null, FileAddr}

\* the object the call is made on, and what it points to
Roots ==
  {[type |-> "BootloaderInfoResponse", revision |-> 0, name |-> p, version |-> q] :
      p \in StrPtrs, q \in StrPtrs}
    \cup {[type |-> "ExecutableFileResponse", revision |-> 0, file |-> p] : p \in FilePtrs}
    \cup {[type |-> "ExecutableCmdlineResponse", revision |-> 0, cmdline |-> p] : p \in StrPtrs}
    \cup {[type |-> "InternalModule", path |-> StrAddr, cmdline |-> StrAddr, flags |-> 0]}
    \cup {[type |-> "lib::BootInfoResponse", revision |-> 0, name |-> p, version |-> q] :
            p \in StrPtrs, q \in StrPtrs}
    \cup {[type |-> "lib::KernelFileResponse", revision |-> 0, kernel_file |-> p] : p \in FilePtrs}

\* the File the file responses point to; lib.rs declares path and cmdline as Ptr<c_char>
Files(root) ==
  IF root.type = "lib::KernelFileResponse"
    THEN {[type |-> "lib::File", path |-> p, cmdline |-> q] : p \in StrPtrs, q \in StrPtrs}
  ELSE IF root.type = "ExecutableFileResponse"
    THEN {[type |-> "File", path |-> p, cmdline |-> q] : p \in StrPtrs, q \in StrPtrs}
  ELSE {[type |-> "unmapped"]}

NoRequest == [api |-> "none", kind |-> "none", response |-> null]

AccessInit ==
  /\ Uniprocessor
  /\ phase = "run"
  /\ req = NoRequest
  /\ bootloader_wrote = None
  /\ obs = NoObs
  /\ \E root \in Roots : \E file \in Files(root) : \E s \in CStrings :
       heap = (RootAddr :> root) @@ (StrAddr :> [type |-> "bytes", bytes |-> s])
                @@ (FileAddr :> file)

Call(op, outcomes) ==
  /\ \E o \in outcomes :
       obs' = [op |-> op, result |-> o.result, derefs |-> o.derefs, reads |-> o.reads]
  /\ UNCHANGED <<phase, req, heap, bootloader_wrote, cores, store_buffer, clock>>

CallName(f) ==
  /\ heap[RootAddr].type = "BootloaderInfoResponse"
  /\ Call(f, BootloaderInfoResponse_text(heap, heap[RootAddr], f))

CallFile ==
  /\ heap[RootAddr].type = "ExecutableFileResponse"
  /\ Call("file", ExecutableFileResponse_file(heap, heap[RootAddr]))

\* file().path() / file().cmdline(), once file() has returned a reference
CallFileText(f) ==
  /\ heap[RootAddr].type = "ExecutableFileResponse"
  /\ heap[RootAddr].file # null
  /\ Call("File::" \o f, File_text(heap, heap[heap[RootAddr].file], f))

CallCmdline ==
  /\ heap[RootAddr].type = "ExecutableCmdlineResponse"
  /\ Call("ExecutableCmdlineResponse::cmdline",
          ExecutableCmdlineResponse_cmdline(heap, heap[RootAddr]))

CallModuleText(f) ==
  /\ heap[RootAddr].type = "InternalModule"
  /\ Call("InternalModule::" \o f, InternalModule_text(heap, heap[RootAddr], f))

CallToStr(f) ==
  /\ heap[RootAddr].type = "lib::BootInfoResponse"
  /\ Call("to_str", Ptr_to_str(heap, heap[RootAddr][f]))

CallKernelFile ==
  /\ heap[RootAddr].type = "lib::KernelFileResponse"
  /\ Call("kernel_file.get", Ptr_get_ref(heap[RootAddr].kernel_file))

\* kernel_file.get() returned Some(file): file.path.to_str() / file.cmdline.to_str()
CallLibFileText(f) ==
  /\ heap[RootAddr].type = "lib::KernelFileResponse"
  /\ Ptr_get(heap[RootAddr].kernel_file) # None
  /\ Call("to_str", Ptr_to_str(heap, heap[unwrap(Ptr_get(heap[RootAddr].kernel_file))][f]))

AccessNext ==
  \/ \E f \in {"name", "version"} : CallName(f)
  \/ CallFile
  \/ \E f \in {"path", "cmdline"} : CallFileText(f)
  \/ CallCmdline
  \/ \E f \in {"path", "cmdline"} : CallModuleText(f)
  \/ \E f \in {"name", "version"} : CallToStr(f)
  \/ CallKernelFile
  \/ \E f \in {"path", "cmdline"} : CallLibFileText(f)

SpecAccess == AccessInit /\ [][AccessNext]_vars

(***************************************************************************)
(* Counted arrays: a count field next to a base pointer, in a request, an  *)
(* InternalModules list or a response, turned into a slice by              *)
(* core::slice::from_raw_parts.                                            *)
(***************************************************************************)
ArrAddr == 2
ElemAddr == 3

Slice(ptr, len) == [tag |-> "slice", ptr |-> ptr, len |-> len]
Abort == [tag |-> "abort"]

\* core::slice::from_raw_parts(data, len).  data must be non-null even when len is 0;
\* with a null data pointer the behaviour is undefined: a build with the library's
\* precondition checks aborts, a build without them makes a slice with a null pointer.
\* The call itself reads no memory.
from_raw_parts(data, len) ==
  IF data = null
    THEN {[result |-> Abort, derefs |-> {}, reads |-> {}],
          [result |-> Slice(data, len), derefs |-> {}, reads |-> {}]}
    ELSE {[result |-> Slice(data, len), derefs |-> {}, reads |-> {}]}

\* ModuleRequest::internal_modules()
ModuleRequest_internal_modules(r) ==
  from_raw_parts(r.fields.internal_modules, r.fields.internal_module_ct)

\* InternalModules::EMPTY and InternalModules::new(modules)
InternalModules_EMPTY == [type |-> "InternalModules", count |-> 0, modules |-> null]
InternalModules_new(modules) ==
  [type |-> "InternalModules", count |-> slice_len(modules), modules |-> slice_as_ptr(modules)]

\* <InternalModules as Deref>::deref()
InternalModules_deref(m) == from_raw_parts(m.modules, m.count)

\* MemoryMapResponse::entries(), MpResponse::cpus(), ModuleResponse::modules()
MemoryMapResponse_entries(resp) == from_raw_parts(resp.entries, resp.entry_ct)
\* faulty variant: the length is taken from another field than cpu_ct
MpResponse_cpus_other_count(resp) == from_raw_parts(resp.cpus, resp.revision)

MpResponse_cpus(resp) == from_raw_parts(resp.cpus, resp.cpu_ct)

\* indexing a slice: the i-th pointer of the array it views (i from 1)
slice_get(h, sl, i) == h[sl.ptr].elems[i]
ModuleResponse_modules(resp) == from_raw_parts(resp.modules, resp.module_ct)

\* ArrayPtr::into_slice(len), behind the make_struct! responses' array accessors
into_slice(ptr, len) == from_raw_parts(ptr, len)

\* FramebufferResponse::framebuffers(): the slice, then unsafe { &*fb } on each element
FramebufferResponse_framebuffers(h, resp) ==
  LET made == from_raw_parts(resp.framebuffers, resp.framebuffer_ct)
      elems(sl) == IF sl.len = 0 THEN {} ELSE {h[sl.ptr].elems[i] : i \in 1..sl.len}
      base(sl) == IF sl.len = 0 THEN {} ELSE {sl.ptr}
  IN UNION {
       IF o.result.tag = "abort" THEN {o}
       ELSE IF null \in elems(o.result) \cup base(o.result)
         THEN {[result |-> u, derefs |-> elems(o.result) \cup base(o.result),
                reads |-> {}] : u \in UndefinedBehaviour}
       ELSE {[result |-> o.result, derefs |-> elems(o.result) \cup base(o.result),
              reads |-> {}]}
       : o \in made }

\* <NonNullPtr<T> as Deref>::deref(): unsafe { self.ptr.as_ref() }
NonNullPtr_deref(ptr) ==
  IF ptr = null
    THEN {[result |-> u, derefs |-> {null}, reads |-> {}] : u \in UndefinedBehaviour}
    ELSE {[result |-> Ref(ptr), derefs |-> {ptr}, reads |-> {}]}

\* the slices an executable can pass to set_internal_modules / InternalModules::new:
\* a static slice has a non-null pointer even when it is empty
ModuleSlices == {[ptr |-> ArrAddr, len |-> n] : n \in 0..MaxLen}

\* what the bootloader may leave in a count and base pointer pair: an array of
\* count elements, or no array at all when there are no elements
Counted == {[ct |-> n, base |-> ArrAddr] : n \in 0..MaxLen}
             \cup {[ct |-> 0, base |-> null]}

SliceRoots ==
  {[type |-> "ModuleRequest", request |-> new("ModuleRequest")]}
    \cup {[type |-> "ModuleRequest",
           request |-> set_internal_modules(new("ModuleRequest"), m)] : m \in ModuleSlices}
    \cup {InternalModules_EMPTY}
    \cup {InternalModules_new(m) : m \in ModuleSlices}
    \cup {[type |-> "MemoryMapResponse", revision |-> 0, entry_ct |-> c.ct,
           entries |-> c.base] : c \in Counted}
    \cup {[type |-> "MpResponse", revision |-> 0, cpu_ct |-> c.ct,
           cpus |-> c.base] : c \in Counted}
    \cup {[type |-> "ModuleResponse", revision |-> 0, module_ct |-> c.ct,
           modules |-> c.base] : c \in Counted}
    \cup {[type |-> "FramebufferResponse", revision |-> 0, framebuffer_ct |-> c.ct,
           framebuffers |-> c.base] : c \in Counted}
    \cup {[type |-> "lib::MemmapResponse", revision |-> 0, entry_count |-> c.ct,
           entries |-> c.base] : c \in Counted}

\* the array: MaxLen element pointers, each to the element object or null
Arrays == AllSeqs({null, ElemAddr}, MaxLen)

SliceInit ==
  /\ Uniprocessor
  /\ phase = "run"
  /\ req = NoRequest
  /\ bootloader_wrote = None
  /\ obs = NoObs
  /\ \E root \in SliceRoots : \E arr \in Arrays :
       heap = (RootAddr :> root) @@ (ArrAddr :> [type |-> "array", elems |-> arr])
                @@ (ElemAddr :> [type |-> "element"])

CallInternalModules ==
  /\ heap[RootAddr].type = "ModuleRequest"
  /\ Call("internal_modules", ModuleRequest_internal_modules(heap[RootAddr].request))

CallInternalModulesDeref ==
  /\ heap[RootAddr].type = "InternalModules"
  /\ Call("InternalModules::deref", InternalModules_deref(heap[RootAddr]))

CallEntries ==
  /\ heap[RootAddr].type = "MemoryMapResponse"
  /\ Call("entries", MemoryMapResponse_entries(heap[RootAddr]))

CallCpus ==
  /\ heap[RootAddr].type = "MpResponse"
  /\ Call("cpus", MpResponse_cpus(heap[RootAddr]))

CallModules ==
  /\ heap[RootAddr].type = "ModuleResponse"
  /\ Call("modules", ModuleResponse_modules(heap[RootAddr]))

CallFramebuffers ==
  /\ heap[RootAddr].type = "FramebufferResponse"
  /\ Call("framebuffers", FramebufferResponse_framebuffers(heap, heap[RootAddr]))

CallMemmap ==
  /\ heap[RootAddr].type = "lib::MemmapResponse"
  /\ Call("memmap", into_slice(heap[RootAddr].entries, heap[RootAddr].entry_count))

\* *resp.memmap()[i]: the i-th NonNullPtr of the slice, dereferenced
CallElement(i) ==
  /\ heap[RootAddr].type = "lib::MemmapResponse"
  /\ heap[RootAddr].entries # null
  /\ i <= heap[RootAddr].entry_count
  /\ Call("NonNullPtr::deref", NonNullPtr_deref(heap[heap[RootAddr].entries].elems[i]))

SliceNext ==
  \/ CallInternalModules
  \/ CallInternalModulesDeref
  \/ CallEntries
  \/ CallCpus
  \/ CallModules
  \/ CallFramebuffers
  \/ CallMemmap
  \/ \E i \in 1..MaxLen : CallElement(i)

SpecSlice == SliceInit /\ [][SliceNext]_vars

(***************************************************************************)
(* Enumerated fields.  A 64-bit code is a pair <<high word, low word>> of  *)
(* 32-bit words.  memory_map::EntryType, FirmwareType and paging::Mode are *)
(* transparent wrappers of the u64; lib.rs declares MemoryMapEntryType as  *)
(* a #[repr(u32)] enum, read from the low word of the protocol's field.    *)
(***************************************************************************)
MaxCode == 9

u64(n) == <<0, n>>

Codes == {<<hi, lo>> : hi \in {0, 1}, lo \in 0..MaxCode}

\* the named constants of each type, by their code
NamedCodes ==
  [EntryType |-> 0..7, FirmwareType |-> 0..2, Mode |-> 0..1, MemoryMapEntryType |-> 0..7]

\* From<u64>: Self(val); the field is handed out as it is stored
From_u64(val) == val

\* reading MemmapEntry::typ: the enum's discriminant is the low word.  A discriminant
\* that is no variant's is an invalid value of the enum: the build takes it for one
\* of the variants where it matches on it, or traps
MemoryMapEntryType_read(code) ==
  IF code[2] \in NamedCodes.MemoryMapEntryType
    THEN {[tag |-> "value", value |-> [discriminant |-> code[2]]]}
    ELSE {[tag |-> "value", value |-> [discriminant |-> d]] : d \in NamedCodes.MemoryMapEntryType}
           \cup {[tag |-> "ub", how |-> "fault"]}

\* what reading a field of the given enumerated type gives for a stored code
Decode(kind, code) ==
  IF kind = "MemoryMapEntryType"
    THEN MemoryMapEntryType_read(code)
    ELSE {[tag |-> "value", value |-> From_u64(code)]}

EnumKinds == {"EntryType", "FirmwareType", "Mode", "MemoryMapEntryType"}

EnumInit ==
  /\ Uniprocessor
  /\ phase = "run"
  /\ req = NoRequest
  /\ bootloader_wrote = None
  /\ obs = NoObs
  /\ \E kind \in EnumKinds : \E code \in Codes :
       heap = (RootAddr :> [type |-> kind, code |-> code])

\* FirmwareTypeResponse::firmware_type(), PagingModeResponse::mode(),
\* Entry::entry_type and MemmapEntry::typ
ReadEnum(kind) ==
  /\ heap[RootAddr].type = kind
  /\ Call(kind, {[result |-> o, derefs |-> {}, reads |-> {}] :
                   o \in Decode(kind, heap[RootAddr].code)})

EnumNext == \E kind \in EnumKinds : ReadEnum(kind)

SpecEnum == EnumInit /\ [][EnumNext]_vars

(***************************************************************************)
(* The revision marker (BaseRevision): a magic signature followed by a     *)
(* revision cell.  The executable declares it with the base revision it    *)
(* asks for; the bootloader leaves the cell as it is or overwrites it with *)
(* the revision it honours; the executable reads it after control transfer.*)
(***************************************************************************)
MaxBaseRev == 9

BaseRevisions == 0..MaxBaseRev

\* BaseRevision::with_revision(k): the cell holds k, nothing has been echoed
BaseRevision_with_revision(k) ==
  [api |-> "base", kind |-> "BaseRevision", revision |-> k, loaded |-> None]

\* faulty variant: the comparison with the sentinel is inverted
BaseRevision_is_supported_inverted(b) == b.revision # 0

\* BaseRevision::is_supported(): a volatile read of the cell, compared with 0
BaseRevision_is_supported(b) == b.revision = 0

\* BaseRevision::loaded_revision(): the revision the bootloader echoed, if it did
BaseRevision_loaded_revision(b) == b.loaded

BaseInit ==
  /\ Uniprocessor
  /\ phase = "build"
  /\ \E k \in BaseRevisions : req = BaseRevision_with_revision(k)
  /\ heap = <<>>
  /\ obs = NoObs
  /\ bootloader_wrote = None

\* the bootloader understands the marker and echoes the revision m it honours
BootloaderEchoes(m) ==
  /\ phase = "boot"
  /\ bootloader_wrote = None
  /\ req' = [req EXCEPT !.revision = m, !.loaded = Some(m)]
  /\ bootloader_wrote' = Some(m)
  /\ UNCHANGED <<phase, heap, obs, cores, store_buffer, clock>>

CallIsSupported ==
  /\ Executing
  /\ obs' = [op |-> "is_supported", result |-> Some(BaseRevision_is_supported(req))]
  /\ UNCHANGED <<phase, req, heap, bootloader_wrote, cores, store_buffer, clock>>

CallLoadedRevision ==
  /\ Executing
  /\ obs' = [op |-> "loaded_revision", result |-> BaseRevision_loaded_revision(req)]
  /\ UNCHANGED <<phase, req, heap, bootloader_wrote, cores, store_buffer, clock>>

BaseNext ==
  \/ Load
  \/ \E m \in BaseRevisions : BootloaderEchoes(m)
  \/ Transfer
  \/ CallIsSupported
  \/ CallLoadedRevision

SpecBase == BaseInit /\ [][BaseNext]_vars

(***************************************************************************)
(* Framebuffers.  A RawFramebuffer is a union of the revision 0 layout and *)
(* the revision 1 layout, which appends mode_ct and modes; the bootloader  *)
(* writes the layout of the response's revision, so under revision 0 the   *)
(* appended fields are not part of the object.                             *)
(***************************************************************************)
FramebufferRevisions == 0..(MaxRev + 1)

\* the i-th raw framebuffer's address, and the address of a mode list
FramebufferAddr(i) == ElemAddr + i - 1
ModesAddr == ElemAddr + MaxLen

RawFramebuffers(revision) ==
  IF revision = 0
    THEN {[type |-> "RawFramebuffer", v1 |-> None]}
    ELSE {[type |-> "RawFramebuffer", v1 |-> Some([mode_ct |-> n, modes |-> ModesAddr])] :
            n \in 0..MaxLen}

\* faulty variant: the wrapper is stamped with the latest revision, not the response's
Framebuffer_new_latest(revision, inner) == [revision |-> 1, inner |-> inner]

\* Framebuffer::new(revision, inner)
Framebuffer_new(revision, inner) == [revision |-> revision, inner |-> inner]

\* FramebufferResponse::framebuffers(): .map(|&fb| Framebuffer::new(self.revision, &*fb))
FramebufferResponse_iter(h, resp) ==
  [i \in 1..resp.framebuffer_ct |->
     Framebuffer_new(resp.revision, h[resp.framebuffers].elems[i])]

\* Framebuffer::modes(): match self.revision { 0 => None, 1.. => Some(slice) }.
\* Reading v1 of a framebuffer written in the revision 0 layout reads past the object.
Framebuffer_modes(h, fb) ==
  IF fb.revision = 0
    THEN {[result |-> Absent, derefs |-> {}, reads |-> {}]}
  ELSE IF h[fb.inner].v1 = None
    THEN {[result |-> u, derefs |-> {fb.inner}, reads |-> {"mode_ct", "modes"}] :
            u \in UndefinedBehaviour}
  ELSE {[result |-> o.result, derefs |-> {fb.inner}, reads |-> {"mode_ct", "modes"}] :
          o \in from_raw_parts(unwrap(h[fb.inner].v1).modes, unwrap(h[fb.inner].v1).mode_ct)}

FramebufferInit ==
  /\ Uniprocessor
  /\ phase = "run"
  /\ req = NoRequest
  /\ bootloader_wrote = None
  /\ obs = NoObs
  /\ \E revision \in FramebufferRevisions : \E ct \in 0..MaxLen :
     \E raws \in [1..MaxLen -> RawFramebuffers(revision)] :
       heap = (RootAddr :> [type |-> "FramebufferResponse", revision |-> revision,
                            framebuffer_ct |-> ct, framebuffers |-> ArrAddr])
                @@ (ArrAddr :> [type |-> "array",
                                elems |-> [i \in 1..MaxLen |-> FramebufferAddr(i)]])
                @@ [a \in {FramebufferAddr(i) : i \in 1..MaxLen} |-> raws[a - ElemAddr + 1]]

CallFramebuffersIter ==
  /\ heap[RootAddr].framebuffer_ct > 0
  /\ Call("framebuffers().collect",
          {[result |-> [tag |-> "items", items |-> FramebufferResponse_iter(heap, heap[RootAddr])],
            derefs |-> {heap[RootAddr].framebuffers}, reads |-> {}]})

CallModes(i) ==
  /\ i <= heap[RootAddr].framebuffer_ct
  /\ Call("modes", Framebuffer_modes(heap, FramebufferResponse_iter(heap, heap[RootAddr])[i]))

FramebufferNext ==
  \/ CallFramebuffersIter
  \/ \E i \in 1..MaxLen : CallModes(i)

SpecFramebuffer == FramebufferInit /\ [][FramebufferNext]_vars

(***************************************************************************)
(* Building requests and internal modules: the setters of both idioms and  *)
(* the field accessors, on a request and an InternalModule that the        *)
(* executable owns.  The heap holds the module and the C string statics.   *)
(***************************************************************************)
\* the C string statics of the image: b"\0" of InternalModule::new, and two others
StaticStrings ==
  (StrAddr :> <<0>>) @@ (StrAddr + 1 :> <<97, 0>>) @@ (StrAddr + 2 :> <<97, 98, 0>>)

\* &'static CStr: the pointer and the length with the terminator
CStrStatics == {[ptr |-> a, len |-> Len(StaticStrings[a])] : a \in DOMAIN StaticStrings}

\* CStr::as_ptr()
CStr_as_ptr(c) == c.ptr

ModuleFlags_empty == 0

\* InternalModule::new()
InternalModule_new ==
  [type |-> "InternalModule", path |-> StrAddr, cmdline |-> StrAddr,
   flags |-> ModuleFlags_empty]

\* InternalModule::with_path / with_cmdline / with_flags
InternalModule_with(m, field, value) ==
  [m EXCEPT ![field] = IF field = "flags" THEN value ELSE CStr_as_ptr(value)]

\* InternalModule::set_path / set_cmdline / set_flags
InternalModule_set(m, field, value) ==
  [m EXCEPT ![field] = IF field = "flags" THEN value ELSE CStr_as_ptr(value)]

\* InternalModule::flags()
InternalModule_flags(m) == m.flags

\* faulty variant: every accessor hands out the first field of the request
request_get_first(r, field) == r.fields[CHOOSE f \in DOMAIN r.fields : TRUE]

\* size(), mode(), max_mode(), min_mode(), flags(), entry_point(): self.$field
request_get(r, field) == r.fields[field]

ModuleValues(field) == IF field = "flags" THEN 0..MaxVal ELSE CStrStatics

BuilderInit ==
  /\ Uniprocessor
  /\ phase = "build"
  /\ \E k \in DOMAIN request_rs : req = new(k)
  /\ heap = (RootAddr :> InternalModule_new)
              @@ [a \in DOMAIN StaticStrings |-> [type |-> "bytes", bytes |-> StaticStrings[a]]]
  /\ obs = NoObs
  /\ bootloader_wrote = None

ModuleWith(f, v) ==
  /\ heap' = [heap EXCEPT ![RootAddr] = InternalModule_with(@, f, v)]
  /\ obs' = [op |-> "with", result |-> None]
  /\ UNCHANGED <<phase, req, bootloader_wrote, cores, store_buffer, clock>>

ModuleSet(f, v) ==
  /\ heap' = [heap EXCEPT ![RootAddr] = InternalModule_set(@, f, v)]
  /\ obs' = [op |-> "set", result |-> None]
  /\ UNCHANGED <<phase, req, bootloader_wrote, cores, store_buffer, clock>>

Get(f) ==
  /\ f \in SetterFields(req)
  /\ obs' = [op |-> "get", result |-> Some(<<f, request_get(req, f)>>)]
  /\ UNCHANGED <<phase, req, heap, bootloader_wrote, cores, store_buffer, clock>>

GetInternalModules ==
  /\ req.kind = "ModuleRequest"
  /\ \E o \in ModuleRequest_internal_modules(req) :
       obs' = [op |-> "internal_modules", result |-> Some(o.result)]
  /\ UNCHANGED <<phase, req, heap, bootloader_wrote, cores, store_buffer, clock>>

ModuleGet(f) ==
  /\ \E o \in IF f = "flags"
                THEN {[result |-> InternalModule_flags(heap[RootAddr])]}
                ELSE InternalModule_text(heap, heap[RootAddr], f) :
       obs' = [op |-> "InternalModule::" \o f, result |-> Some(o.result)]
  /\ UNCHANGED <<phase, req, heap, bootloader_wrote, cores, store_buffer, clock>>

BuilderNext ==
  \/ \E f \in {"size", "mode", "max_mode", "min_mode", "flags", "entry_point"} :
       \E v \in FieldValues(f) : With(f, v) \/ Set(f, v)
  \/ \E m \in StaticSlices : WithInternalModules(m) \/ SetInternalModules(m)
  \/ \E f \in {"path", "cmdline", "flags"} :
       \E v \in ModuleValues(f) : ModuleWith(f, v) \/ ModuleSet(f, v)
  \/ \E f \in {"size", "mode", "max_mode", "min_mode", "flags", "entry_point"} : Get(f)
  \/ GetInternalModules
  \/ \E f \in {"path", "cmdline", "flags"} : ModuleGet(f)

SpecBuilder == BuilderInit /\ [][BuilderNext]_vars

(***************************************************************************)
(* Multiprocessor start-up.  The bootloader reports one Cpu descriptor per *)
(* logical processor, the boot processor included, and parks every other   *)
(* processor on its own descriptor's goto_address.  The executable, on the *)
(* boot processor, stores to the descriptors; a store reaches shared       *)
(* memory some time after it is issued, in an order the store's            *)
(* Ordering constrains.                                                    *)
(***************************************************************************)
MaxCpus == 3
MaxStores == 2
MaxFunc == 2

\* addresses of extern "C" fn(&Cpu) -> ! items: a function item is never null
Functions == 1..MaxFunc

CpuIds == 1..MaxCpus
CpuAddr(i) == ElemAddr + i - 1

\* Cpu as the bootloader hands it over; stamp is history: which store wrote goto_address
Cpu(lapic_id) ==
  [type |-> "Cpu", lapic_id |-> lapic_id, goto_address |-> null, extra |-> 0, stamp |-> 0]

\* the processor a descriptor describes is the boot processor
is_bsp(h, i) == h[CpuAddr(i)].lapic_id = h[RootAddr].bsp_lapic_id

\* cpu.extra = value through cpus_mut(): a plain store
Cpu_set_extra(sb, cpu, value, now) ==
  Append(sb, [addr |-> cpu, field |-> "extra", value |-> value,
              ordering |-> "Plain", stamp |-> now])

\* faulty variant: the store carries no ordering
GotoAddress_write_relaxed(sb, api, cpu, func, now) ==
  Append(sb, [addr |-> cpu, field |-> "goto_address", value |-> func,
              ordering |-> "Relaxed", stamp |-> now])

\* faulty variant: the function pointer is dropped and null is stored
GotoAddress_write_null(sb, api, cpu, func, now) ==
  Append(sb, [addr |-> cpu, field |-> "goto_address", value |-> null,
              ordering |-> IF api = "mp" THEN "SeqCst" ELSE "Release", stamp |-> now])

\* GotoAddress::write(&self, func): self.inner.store(func as *mut (), Ordering::_),
\* SeqCst in mp.rs and Release in smp.rs
GotoAddress_write(sb, api, cpu, func, now) ==
  Append(sb, [addr |-> cpu, field |-> "goto_address", value |-> func,
              ordering |-> IF api = "mp" THEN "SeqCst" ELSE "Release", stamp |-> now])

\* Ordering: a store that is at least a release is not performed before an earlier store
Releases(ordering) == ordering \in {"Release", "AcqRel", "SeqCst"}

\* the k-th pending store may be performed now: stores to one location stay in order,
\* and a releasing store waits for every store issued before it
MayPerform(sb, k) ==
  /\ \A j \in 1..(k - 1) : ~(sb[j].addr = sb[k].addr /\ sb[j].field = sb[k].field)
  /\ Releases(sb[k].ordering) => k = 1

\* faulty variant: the store lands in every descriptor of the list
Perform_every_descriptor(h, st) ==
  [a \in DOMAIN h |->
     IF h[a].type # "Cpu" THEN h[a]
     ELSE IF st.field = "goto_address"
       THEN [h[a] EXCEPT !.goto_address = st.value, !.stamp = st.stamp]
       ELSE [h[a] EXCEPT !.extra = st.value]]

Perform(h, st) ==
  IF st.field = "goto_address"
    THEN [h EXCEPT ![st.addr].goto_address = st.value, ![st.addr].stamp = st.stamp]
    ELSE [h EXCEPT ![st.addr].extra = st.value]

Remove(sb, k) == [j \in 1..(Len(sb) - 1) |-> IF j < k THEN sb[j] ELSE sb[j + 1]]

\* a load by the storing processor: its own latest store to the location, else memory
Pending(sb, cpu, field) == {j \in 1..Len(sb) : sb[j].addr = cpu /\ sb[j].field = field}
Latest(S) == CHOOSE j \in S : \A k \in S : k <= j
Cpu_load(h, sb, cpu, field) ==
  IF Pending(sb, cpu, field) = {} THEN h[cpu][field]
  ELSE sb[Latest(Pending(sb, cpu, field))].value

\* faulty variant: every parked processor watches the first descriptor of the list
Cpu_watched_first(h, i) == CpuAddr(1)

\* the descriptor a parked processor watches and is handed: its own
Cpu_watched(h, i) == CpuAddr(i)

Parked == [state |-> "parked", func |-> null, arg |-> null, saw |-> 0]
Booted == [state |-> "boot", func |-> null, arg |-> null, saw |-> 0]

MpInit ==
  /\ phase = "run"
  /\ \E api \in {"mp", "smp"} :
       req = [api |-> api, kind |-> IF api = "mp" THEN "MpRequest" ELSE "SmpRequest"]
  /\ bootloader_wrote = None
  /\ obs = NoObs
  /\ \E bsp \in CpuIds :
       /\ heap = (RootAddr :> [type |-> "MpResponse", revision |-> 0, bsp_lapic_id |-> bsp,
                               cpu_ct |-> MaxCpus, cpus |-> ArrAddr])
                   @@ (ArrAddr :> [type |-> "array", elems |-> [i \in CpuIds |-> CpuAddr(i)]])
                   @@ [a \in {CpuAddr(i) : i \in CpuIds} |-> Cpu(a - ElemAddr + 1)]
       /\ cores = [i \in CpuIds |-> IF i = bsp THEN Booted ELSE Parked]
  /\ store_buffer = <<>>
  /\ clock = 0

\* response.cpus_mut()[i].extra = value
SetExtra(i, value) ==
  /\ clock < MaxStores
  /\ \E o \in MpResponse_cpus(heap[RootAddr]) :
       store_buffer' = Cpu_set_extra(store_buffer, slice_get(heap, o.result, i), value, clock + 1)
  /\ clock' = clock + 1
  /\ obs' = [op |-> "set_extra", result |-> None]
  /\ UNCHANGED <<phase, req, heap, bootloader_wrote, cores>>

\* response.cpus()[i].goto_address.write(func): any descriptor, any number of times
WriteGotoAddress(i, func) ==
  /\ clock < MaxStores
  /\ \E o \in MpResponse_cpus(heap[RootAddr]) :
       store_buffer' = GotoAddress_write(store_buffer, req.api, slice_get(heap, o.result, i),
                                         func, clock + 1)
  /\ clock' = clock + 1
  /\ obs' = [op |-> "write", result |-> None]
  /\ UNCHANGED <<phase, req, heap, bootloader_wrote, cores>>

\* a pending store of the boot processor reaches shared memory
StoreReachesMemory(k) ==
  /\ k \in 1..Len(store_buffer)
  /\ MayPerform(store_buffer, k)
  /\ heap' = Perform(heap, store_buffer[k])
  /\ store_buffer' = Remove(store_buffer, k)
  /\ UNCHANGED <<phase, req, obs, bootloader_wrote, cores, clock>>

\* a parked processor loads the goto_address it watches with acquire ordering, finds it
\* written, and jumps to it with a pointer to the descriptor
Start(i) ==
  /\ cores[i].state = "parked"
  /\ heap[Cpu_watched(heap, i)].goto_address # null
  /\ cores' = [cores EXCEPT ![i] = [state |-> "running",
                                    func |-> heap[Cpu_watched(heap, i)].goto_address,
                                    arg |-> Cpu_watched(heap, i),
                                    saw |-> heap[Cpu_watched(heap, i)].stamp]]
  /\ UNCHANGED <<phase, req, heap, obs, bootloader_wrote, store_buffer, clock>>

MpNext ==
  \/ \E i \in CpuIds : \E value \in 0..MaxVal : SetExtra(i, value)
  \/ \E i \in CpuIds : \E func \in Functions : WriteGotoAddress(i, func)
  \/ \E k \in 1..MaxStores : StoreReachesMemory(k)
  \/ \E i \in CpuIds : Start(i)

SpecMp == MpInit /\ [][MpNext]_vars

\* Every store the boot processor issues reaches shared memory in finite time, and a
\* parked processor that is scheduled keeps loading the goto_address it watches.
SpecMpFair ==
  /\ SpecMp
  /\ WF_vars(StoreReachesMemory(1))
  /\ \A i \in CpuIds : WF_vars(Start(i))

(***************************************************************************)
(* A library call step by step: where the executable is inside            *)
(* get_response(), get_response_mut(), revision() or a response accessor,  *)
(* with the request answered or not.  cores holds the one processor the    *)
(* executable runs on.                                                     *)
(***************************************************************************)
Idle == [state |-> "idle", op |-> "none", pc |-> "none", tmp |-> null]

CallOps == {"get_response", "get_response_mut", "revision", "response.revision"}

\* faulty variant: the read is repeated until the slot is non-null
after_read_volatile_spin(inner) == IF inner = null THEN "read_volatile" ELSE "return"

\* Response::get / get_mut, make_struct! get_response: after the one read_volatile the
\* call goes on to its return, whatever was read (`?` returns None at once)
after_read_volatile(inner) == "return"

StepsInit ==
  /\ store_buffer = <<>>
  /\ clock = 0
  /\ cores = <<Idle>>
  /\ obs = NoObs
  /\ \E r \in ConstructedRequests :
       \/ /\ phase \in {"build", "run"}
          /\ req = r
          /\ heap = [a \in Addrs |-> None]
          /\ bootloader_wrote = None
       \/ /\ phase = "run"
          /\ \E a \in Addrs : \E content \in ResponseContents(r) :
               /\ req = [r EXCEPT !.response = a]
               /\ heap = [x \in Addrs |-> IF x = a THEN Some(content) ELSE None]
               /\ bootloader_wrote = Some([addr |-> a, content |-> content])

\* the executable calls op; a response accessor is called on a reference it holds
Enter(op) ==
  /\ Executing
  /\ cores[1].state = "idle"
  /\ op = "revision" => req.api = "request"
  /\ op = "response.revision" => (phase = "run" /\ req.response # null)
  /\ cores' = <<[state |-> "call", op |-> op,
                 pc |-> IF op \in {"revision", "response.revision"}
                          THEN "return" ELSE "read_volatile",
                 tmp |-> null]>>
  /\ UNCHANGED <<phase, req, heap, obs, bootloader_wrote, store_buffer, clock>>

\* the next step of the call in progress: the volatile read of the slot, or the return
Step ==
  /\ cores[1].state = "call"
  /\ IF cores[1].pc = "read_volatile"
       THEN /\ cores' = <<[cores[1] EXCEPT !.tmp = req.response,
                                           !.pc = after_read_volatile(req.response)]>>
            /\ UNCHANGED obs
       ELSE /\ cores' = <<Idle>>
            /\ obs' = [op |-> cores[1].op,
                       result |->
                         CASE cores[1].op = "revision" -> Some(request_revision(req))
                           [] cores[1].op = "response.revision" ->
                                Some(response_revision(deref(heap, req.response)))
                           [] cores[1].op = "get_response_mut" ->
                                IF req.api = "request" THEN Response_get_mut(cores[1].tmp).result
                                ELSE Ptr_get_mut(cores[1].tmp)
                           [] OTHER ->
                                IF req.api = "request" THEN Response_get(cores[1].tmp)
                                ELSE Ptr_get(cores[1].tmp)]
  /\ UNCHANGED <<phase, req, heap, bootloader_wrote, store_buffer, clock>>

StepsNext ==
  \/ \E op \in CallOps : Enter(op)
  \/ Step

\* the executable is not preempted for ever: a call in progress takes its next step
SpecSteps == StepsInit /\ [][StepsNext]_vars /\ WF_vars(Step)

(***************************************************************************)
(* The memory map.  The bootloader writes a map that keeps the documented  *)
(* guarantee; the executable reads it through entries() / memmap() and may *)
(* store to the public fields of an entry through entries_mut() /          *)
(* memmap_mut().  clock counts those stores.                               *)
(***************************************************************************)
MaxHalfPages == 3

PageSize == 4096
USABLE == 0
RESERVED == 1
BOOTLOADER_RECLAIMABLE == 5

EntryAddr(i) == ElemAddr + i - 1

\* Entry { base, length, entry_type } (MemmapEntry { base, len, typ } in lib.rs)
Entries ==
  {[type |-> "Entry", base |-> b * (PageSize \div 2), length |-> l * (PageSize \div 2),
    entry_type |-> t] :
     b \in 0..MaxHalfPages, l \in 1..2, t \in {USABLE, RESERVED, BOOTLOADER_RECLAIMABLE}}

Overlap(e, f) == e.base < f.base + f.length /\ f.base < e.base + e.length
Reclaimable(e) == e.entry_type \in {USABLE, BOOTLOADER_RECLAIMABLE}

\* the guarantee documented on MemoryMapRequest, for a list of entries
MapInvariant(m) ==
  /\ \A i \in 1..(Len(m) - 1) : m[i].base <= m[i + 1].base
  /\ \A i \in 1..Len(m) :
       Reclaimable(m[i]) => (m[i].base % PageSize = 0 /\ m[i].length % PageSize = 0)
  /\ \A i \in 1..Len(m) : \A j \in 1..Len(m) :
       (i # j /\ Reclaimable(m[i]) /\ Reclaimable(m[j])) => ~Overlap(m[i], m[j])

\* faulty variant: the slice presents the entries last to first
entries_view_reversed(h, sl) == [i \in 1..sl.len |-> h[slice_get(h, sl, sl.len + 1 - i)]]

\* the entries a slice returned by entries() / memmap() presents, in index order
entries_view(h, sl) == [i \in 1..sl.len |-> h[slice_get(h, sl, i)]]

MemmapInit ==
  /\ Uniprocessor
  /\ phase = "run"
  /\ req = NoRequest
  /\ bootloader_wrote = None
  /\ obs = NoObs
  /\ \E ct \in 0..MaxLen : \E m \in [1..MaxLen -> Entries] :
     \E root \in {[type |-> "MemoryMapResponse", revision |-> 0, entry_ct |-> ct,
                   entries |-> ArrAddr],
                  [type |-> "lib::MemmapResponse", revision |-> 0, entry_count |-> ct,
                   entries |-> ArrAddr]} :
       /\ MapInvariant([i \in 1..ct |-> m[i]])
       /\ \A i \in (ct + 1)..MaxLen : m[i] = m[1]
       /\ heap = (RootAddr :> root)
                   @@ (ArrAddr :> [type |-> "array",
                                   elems |-> [i \in 1..MaxLen |-> EntryAddr(i)]])
                   @@ [a \in {EntryAddr(i) : i \in 1..MaxLen} |-> m[a - ElemAddr + 1]]

\* response.entries_mut()[i].base = value, and so on for length and entry_type
\* (memmap_mut() and base, len, typ in lib.rs)
WriteEntry(i, field, value) ==
  /\ clock < MaxStores
  /\ \E o \in (IF heap[RootAddr].type = "MemoryMapResponse"
                 THEN MemoryMapResponse_entries(heap[RootAddr])
                 ELSE into_slice(heap[RootAddr].entries, heap[RootAddr].entry_count)) :
       /\ i <= o.result.len
       /\ heap' = [heap EXCEPT ![slice_get(heap, o.result, i)][field] = value]
       /\ obs' = [op |-> "entries_mut", result |-> o.result, derefs |-> {}, reads |-> {}]
  /\ clock' = clock + 1
  /\ UNCHANGED <<phase, req, bootloader_wrote, cores, store_buffer>>

MemmapNext ==
  \/ CallEntries
  \/ CallMemmap
  \/ \E i \in 1..MaxLen : \E field \in {"base", "length", "entry_type"} :
       \E value \in {e[field] : e \in Entries} : WriteEntry(i, field, value)

SpecMemmap == MemmapInit /\ [][MemmapNext]_vars

(***************************************************************************)
(* Optional fields of File and SmbiosResponse.  The bootloader writes raw  *)
(* integers and UUIDs; the library reads an integer field as               *)
(* Option<NonZeroU32> / Option<NonZeroUsize> and tests a UUID for zero.    *)
(***************************************************************************)
\* what reading a raw integer as Option<NonZero_> gives: the all-zero pattern is None
Option_NonZero(raw) == IF raw = 0 THEN None ELSE Some(raw)

\* u32::to_ne_bytes on the little-endian targets the crate supports
to_ne_bytes(v) ==
  <<v % 256, (v \div 256) % 256, (v \div 65536) % 256, (v \div 16777216) % 256>>

\* File::tftp_ip() with the `ipaddr` feature: Ipv4Addr::new(bytes[0], .., bytes[3])
tftp_ip_ipaddr(field) ==
  IF field = None THEN None
  ELSE Some([octets |-> to_ne_bytes(unwrap(field))])

\* UUIDs the bootloader may write: d is all zero or has one non-zero byte
ZeroBytes == [i \in 1..8 |-> 0]
Uuids ==
  {[a |-> a, b |-> b, c |-> c, d |-> d] :
     a \in 0..MaxVal, b \in 0..MaxVal, c \in 0..MaxVal,
     d \in {ZeroBytes} \cup {[ZeroBytes EXCEPT ![k] = v] : k \in {1, 8}, v \in 1..MaxVal}}

\* faulty variant: the byte array d is left out of the test
Uuid_non_zero_without_d(uuid) ==
  IF uuid.a # 0 \/ uuid.b # 0 \/ uuid.c # 0 THEN Some(uuid) ELSE None

\* Uuid::non_zero(): (a != 0 || b != 0 || c != 0 || d != [0; 8]).then_some(*self)
Uuid_non_zero(uuid) ==
  IF uuid.a # 0 \/ uuid.b # 0 \/ uuid.c # 0 \/ uuid.d # ZeroBytes THEN Some(uuid) ELSE None

NonZeroFields == {"tftp_ip", "tftp_port", "partition_idx", "mbr_disk_id"}
UuidFields == {"gpt_disk_id", "gpt_partition_id", "partition_uuid"}

\* File::tftp_ip / tftp_port / partition_idx / mbr_disk_id, gpt_disk_id /
\* gpt_partition_id / partition_uuid; SmbiosResponse::entry_32 / entry_64
\* ipaddr: the crate is built with the `ipaddr` feature
optional_field(obj, field, ipaddr) ==
  IF field \in UuidFields THEN Uuid_non_zero(obj[field])
  ELSE IF field = "tftp_ip" /\ ipaddr THEN tftp_ip_ipaddr(Option_NonZero(obj[field]))
  ELSE Option_NonZero(obj[field])

OptionalInit ==
  /\ Uniprocessor
  /\ phase = "run"
  /\ req = NoRequest
  /\ bootloader_wrote = None
  /\ obs = NoObs
  /\ \/ \E raw \in [NonZeroFields -> 0..MaxVal] : \E u \in Uuids :
        \E set \in SUBSET UuidFields :
          heap = (RootAddr :>
                    ([type |-> "File"] @@ raw
                       @@ [f \in UuidFields |-> IF f \in set THEN u
                                                ELSE [a |-> 0, b |-> 0, c |-> 0,
                                                      d |-> ZeroBytes]]))
     \/ \E raw \in [{"entry_32", "entry_64"} -> 0..MaxVal] :
          heap = (RootAddr :> ([type |-> "SmbiosResponse", revision |-> 0] @@ raw))

CallOptional(field) ==
  /\ field \in DOMAIN heap[RootAddr]
  /\ \E ipaddr \in BOOLEAN :
       obs' = [op |-> field, result |-> optional_field(heap[RootAddr], field, ipaddr),
               ipaddr |-> ipaddr]
  /\ UNCHANGED <<phase, req, heap, bootloader_wrote, cores, store_buffer, clock>>

OptionalNext ==
  \E field \in NonZeroFields \cup UuidFields \cup {"entry_32", "entry_64"} :
    CallOptional(field)

SpecOptional == OptionalInit /\ [][OptionalNext]_vars

(***************************************************************************)
(* References to a response.  cores holds, for the processor the           *)
(* executable runs on, the references to the response it has live; a       *)
(* reference is live from the call that returned it to the end of the      *)
(* lifetime in its type.                                                   *)
(***************************************************************************)
MaxViews == 2

\* the calls the compiler accepts, given the references that are live.
\* request.rs: get_response(&self) -> Option<&R> and get_response_mut(&mut self) ->
\* Option<&mut R> tie the reference to the borrow of the request, so a &mut self call needs
\* no reference live and a &self call needs no mutable one.
\* lib.rs: get_response(&self) returns a fresh copy of the Ptr, and Ptr::get<'a>(&self) ->
\* Option<&'a T>, Ptr::get_mut<'a>(&mut self) -> Option<&'a mut T> leave 'a to the caller:
\* the reference borrows from nothing, so every call is accepted.
accepted(api, kind, held) ==
  IF api = "request"
    THEN IF kind = "mut" THEN held = {} ELSE \A v \in held : v.kind = "shared"
    ELSE TRUE

ViewsInit ==
  /\ store_buffer = <<>>
  /\ clock = 0
  /\ cores = <<[state |-> "boot", held |-> {}]>>
  /\ obs = NoObs
  /\ phase = "run"
  /\ \E r \in ConstructedRequests : \E a \in Addrs : \E content \in ResponseContents(r) :
       /\ req = [r EXCEPT !.response = a]
       /\ heap = [x \in Addrs |-> IF x = a THEN Some(content) ELSE None]
       /\ bootloader_wrote = Some([addr |-> a, content |-> content])

\* get_response() / get_response_mut(), or get_response().get() / .get_mut() in lib.rs,
\* returning Some: one more live reference to the response
Borrow(id, kind) ==
  /\ \A v \in cores[1].held : v.id # id
  /\ accepted(req.api, kind, cores[1].held)
  /\ LET got == IF req.api = "request"
                  THEN (IF kind = "mut" THEN get_response_mut(req).result
                        ELSE get_response(req))
                  ELSE (IF kind = "mut" THEN Ptr_get_mut(make_struct_get_response(req))
                        ELSE Ptr_get(make_struct_get_response(req)))
     IN /\ is_some(got)
        /\ cores' = <<[cores[1] EXCEPT
                         !.held = @ \cup {[id |-> id, kind |-> kind, to |-> unwrap(got)]}]>>
        /\ obs' = [op |-> IF kind = "mut" THEN "get_response_mut" ELSE "get_response",
                   result |-> got]
  /\ UNCHANGED <<phase, req, heap, bootloader_wrote, store_buffer, clock>>

\* the lifetime of a reference ends
Release(id) ==
  /\ \E v \in cores[1].held : v.id = id
  /\ cores' = <<[cores[1] EXCEPT !.held = {v \in @ : v.id # id}]>>
  /\ UNCHANGED <<phase, req, heap, obs, bootloader_wrote, store_buffer, clock>>

ViewsNext ==
  \/ \E id \in 1..MaxViews : \E kind \in {"shared", "mut"} : Borrow(id, kind)
  \/ \E id \in 1..MaxViews : Release(id)

SpecViews == ViewsInit /\ [][ViewsNext]_vars

(***************************************************************************)
(* Arithmetic of the accessors.  The 64-bit words of the program are       *)
(* scaled to WordBits bits: u64 and usize are 0..2^WordBits - 1, i64 is    *)
(* -2^(WordBits-1)..2^(WordBits-1) - 1, and casts and overflow behave at   *)
(* that width as they do at 64.                                            *)
(***************************************************************************)
WordBits == 6

Pow2(n) == 2 ^ n
I64 == (0 - Pow2(WordBits - 1))..(Pow2(WordBits - 1) - 1)
U64 == 0..(Pow2(WordBits) - 1)

\* `x as u64` on an i64: the same bits, read unsigned
as_u64(x) == x % Pow2(WordBits)

\* Duration::from_secs(secs)
Duration_from_secs(secs) == [secs |-> secs, nanos |-> 0]

\* DateAtBootResponse::timestamp(): Duration::from_secs(self.timestamp as u64);
\* boot_time() returns self.timestamp()
DateAtBootResponse_timestamp(resp) == Duration_from_secs(as_u64(resp.timestamp))

\* a * b on usize: the product when it fits; when it does not, a panic in a build with
\* overflow checks and the wrapped product in a build without
Value(n) == [tag |-> "value", value |-> n]
usize_mul(a, b) ==
  IF a * b < Pow2(WordBits) THEN {Value(a * b)}
  ELSE {Panic, Value((a * b) % Pow2(WordBits))}

\* lib.rs Framebuffer::size():
\* self.pitch as usize * self.height as usize * (self.bpp as usize / 8)
Framebuffer_size(fb) ==
  UNION {IF ph = Panic THEN {Panic} ELSE usize_mul(ph.value, fb.bpp \div 8) :
           ph \in usize_mul(fb.pitch, fb.height)}

NumericInit ==
  /\ Uniprocessor
  /\ phase = "run"
  /\ req = NoRequest
  /\ bootloader_wrote = None
  /\ obs = NoObs
  /\ \/ \E t \in I64 :
          heap = (RootAddr :> [type |-> "DateAtBootResponse", revision |-> 0, timestamp |-> t])
     \/ \E pitch \in 0..(Pow2(WordBits \div 2) - 1) : \E height \in 0..(Pow2(WordBits \div 2) - 1) :
        \E bpp \in {8, 15, 16, 24, 32} :
          heap = (RootAddr :> [type |-> "lib::Framebuffer", pitch |-> pitch,
                               height |-> height, bpp |-> bpp])

CallTimestamp(op) ==
  /\ heap[RootAddr].type = "DateAtBootResponse"
  /\ obs' = [op |-> op, result |-> DateAtBootResponse_timestamp(heap[RootAddr])]
  /\ UNCHANGED <<phase, req, heap, bootloader_wrote, cores, store_buffer, clock>>

CallSize ==
  /\ heap[RootAddr].type = "lib::Framebuffer"
  /\ \E r \in Framebuffer_size(heap[RootAddr]) : obs' = [op |-> "size", result |-> r]
  /\ UNCHANGED <<phase, req, heap, bootloader_wrote, cores, store_buffer, clock>>

NumericNext ==
  \/ \E op \in {"timestamp", "boot_time"} : CallTimestamp(op)
  \/ CallSize

SpecNumeric == NumericInit /\ [][NumericNext]_vars

(***************************************************************************)
(* Claims                                                                  *)
(***************************************************************************)
get_response_of(r) ==
  IF r.api = "request" THEN get_response(r) ELSE Ptr_get(make_struct_get_response(r))

FeatureWords(r) ==
  IF r.api = "request"
    THEN <<request_rs[r.kind].first, request_rs[r.kind].second>>
    ELSE <<lib_rs[r.kind].id1, lib_rs[r.kind].id2>>

\* C1: for every request type, a request built by new() or with_revision(k) and
\* changed by any sequence of setters reports an absent response (None; for the
\* make_struct! revision a Ptr whose get() is None) from get_response() and
\* get_response_mut() as long as the bootloader has not written its response slot.
C1_AbsentBeforeForeignWrite ==
  bootloader_wrote = None =>
    /\ get_response_of(req) = None
    /\ req.api = "request" => get_response_mut(req).result = None
    /\ obs.op \in {"get_response", "get_response_mut"} => obs.result = None

C1_Witness ==
  /\ bootloader_wrote = None
  /\ phase = "run"
  /\ req \notin ConstructedRequests
  /\ obs.op = "get_response"

\* C2: once the bootloader has stored the address of a response R in the slot,
\* every get_response() after control transfer returns a present reference to
\* that very address, and revision() / offset() on it return what the bootloader
\* wrote there.
C2_ResponseIsWhatWasWritten ==
  (phase = "run" /\ is_some(bootloader_wrote)) =>
    LET w == unwrap(bootloader_wrote) IN
      /\ get_response_of(req) = Some(w.addr)
      /\ response_revision(deref(heap, w.addr)) = w.content.revision
      /\ req.kind = "HhdmRequest" =>
           HhdmResponse_offset(deref(heap, w.addr)) = w.content.offset
      /\ obs.op \in {"get_response", "get_response_mut"} => obs.result = Some(w.addr)
      /\ obs.op = "response.revision" => obs.result = Some(w.content.revision)
      /\ obs.op = "response.offset" => obs.result = Some(w.content.offset)

C2_Witness ==
  /\ phase = "run"
  /\ is_some(bootloader_wrote)
  /\ req.kind = "HhdmRequest"
  /\ obs.op = "response.offset"
  /\ obs.result = Some(MaxVal)

\* C3: the response slot only ever goes from empty to non-null, once, by the
\* bootloader's write before control transfer; no constructor, setter, id(),
\* revision(), get_response(), get_response_mut() or response accessor changes it.
C3_SlotWrittenOnceByBootloader ==
  [][req'.response # req.response =>
       /\ phase = "boot" /\ phase' = "boot"
       /\ req.response = null /\ req'.response # null
       /\ bootloader_wrote = None
       /\ is_some(bootloader_wrote') /\ unwrap(bootloader_wrote').addr = req'.response]_vars

C3_Witness ==
  /\ phase = "run"
  /\ req.response # null
  /\ obs.op = "set"

\* C4: after control transfer the result of get_response() never changes: absent
\* stays absent, and a present response stays the response at the same address.
C4_GetResponseStable ==
  [][phase = "run" =>
       /\ phase' = "run"
       /\ get_response_of(req') = get_response_of(req)
       /\ (obs.op = "get_response" /\ obs'.op = "get_response") => obs'.result = obs.result]_vars

C4_Witness ==
  /\ phase = "run"
  /\ obs.op = "get_response_mut"
  /\ is_some(obs.result)

\* C5: for every request type and every reachable request value, the four id
\* words are 0xc7b1dd30df4c8b88, 0x0a82e883a194f07b and then the two feature
\* words of that request type, in this order.
C5_IdIsCommonPlusFeatureMagic ==
  /\ Len(req.id) = 4
  /\ req.id[1] = <<\Hc7b1, \Hdd30, \Hdf4c, \H8b88>>
  /\ req.id[2] = <<\H0a82, \He883, \Ha194, \Hf07b>>
  /\ <<req.id[3], req.id[4]>> = FeatureWords(req)
  /\ obs.op = "id" => obs.result = Some(req.id)

C5_Witness ==
  /\ phase = "run"
  /\ is_some(bootloader_wrote)
  /\ req \notin {[c EXCEPT !.response = req.response] : c \in ConstructedRequests}
  /\ obs.op = "id"

\* C6: within a revision of the library no two request types have the same
\* identifier: the feature words of any other type differ from those of the
\* request at hand while the common words agree, the identifier does not depend
\* on the revision, and the section markers' identifiers equal no request's.
OtherRequests(r) ==
  IF r.api = "request"
    THEN {with_revision(k, n) : k \in DOMAIN request_rs \ {r.kind}, n \in Revisions}
    ELSE {make_struct_new(k, n) : k \in DOMAIN lib_rs \ {r.kind}, n \in Revisions}

C6_IdentifiersDistinct ==
  /\ \A o \in OtherRequests(req) :
       /\ <<o.id[3], o.id[4]>> # <<req.id[3], req.id[4]>>
       /\ o.id[1] = req.id[1]
       /\ o.id[2] = req.id[2]
  /\ RequestsStartMarker_new.id # req.id
  /\ RequestsEndMarker_new.id # req.id
  /\ RequestsEndMarker_new.id # <<req.id[1], req.id[2]>>
  /\ RequestsEndMarker_new.id # <<req.id[3], req.id[4]>>

C6_Witness ==
  /\ phase = "run"
  /\ req.api = "request"
  /\ req.kind = "SmbiosRequest"
  /\ req.revision = MaxRev
  /\ obs.op = "id"

\* the wrapper operations applied to a stored address
WrapperResults(stored) ==
  {Ptr_get(stored), Ptr_get_mut(stored), Ptr_as_ptr(stored),
   Response_get(stored), Response_get_mut(stored).result}

\* C7: Ptr::get(), get_mut() and as_ptr() and Response::get() and get_mut() return
\* no reference exactly when the stored address is null, and otherwise a reference
\* to exactly the stored address, whatever the bootloader stored; the result depends
\* on nothing but the address, and the operation always returns.
C7_AbsentIffNull ==
  /\ \A stored \in {null} \cup Addrs : \A got \in WrapperResults(stored) :
       /\ got = None <=> stored = null
       /\ stored # null => got = Some(stored)
  /\ obs.op \in {"get_response", "get_response_mut", "as_ptr"} =>
       /\ obs.result = None <=> req.response = null
       /\ req.response # null => obs.result = Some(req.response)

C7_Witness ==
  /\ phase = "run"
  /\ req.api = "lib"
  /\ obs.op = "as_ptr"
  /\ req.response # null
  /\ obs.result = Some(req.response)

\* C8: no public accessor of a response or wrapper type dereferences a null
\* address, whatever value (null included) the bootloader left in the pointer
\* field it reads: it returns an absent result or dereferences a non-null address.
C8_NullDereferenceUnreachable ==
  obs.op # "none" => null \notin obs.derefs

\* the bytes before the first zero byte of the string buffer, and where that byte is
FirstZero(bytes) == CHOOSE i \in 1..Len(bytes) : bytes[i] = 0 /\ \A j \in 1..(i - 1) : bytes[j] # 0
BeforeFirstZero(bytes) == SubSeq(bytes, 1, FirstZero(bytes) - 1)

TextOps == {"name", "version", "File::path", "File::cmdline",
            "ExecutableCmdlineResponse::cmdline", "InternalModule::path",
            "InternalModule::cmdline", "to_str"}

\* C9: an accessor that turns a non-null character pointer to NUL-terminated memory
\* into text returns exactly the bytes before the first zero byte (as many as there
\* are, none when the first byte is zero) and reads no byte past that zero byte; an
\* accessor that returns no text has read nothing, and only name() and version(),
\* which also demand UTF-8, can stop on bytes outside ASCII instead of returning.
C9_TextIsBytesBeforeFirstZero ==
  obs.op \in TextOps /\ null \notin obs.derefs =>
    LET bytes == heap[StrAddr].bytes
    IN /\ obs.result.tag \in {"text", "panic", "none"}
       /\ obs.result.tag = "text" =>
            /\ obs.result.bytes = BeforeFirstZero(bytes)
            /\ Len(obs.result.bytes) = FirstZero(bytes) - 1
            /\ \A i \in 1..Len(obs.result.bytes) : obs.result.bytes[i] # 0
       /\ obs.reads \subseteq 1..FirstZero(bytes)
       /\ obs.result.tag = "none" => obs.reads = {} /\ obs.derefs = {}
       /\ obs.result.tag = "panic" =>
            /\ obs.op \in {"name", "version"}
            /\ \E i \in 1..(FirstZero(bytes) - 1) : bytes[i] >= 128

C9_Witness ==
  /\ obs.op = "File::path"
  /\ SubSeq(heap[StrAddr].bytes, 1, 4) = <<97, 98, 99, 0>>
  /\ obs.result = Text(<<97, 98, 99>>)
  /\ obs.reads = 1..4

SliceOps == {"internal_modules", "InternalModules::deref", "entries", "cpus", "modules",
             "framebuffers", "memmap"}

\* the count and base pointer the accessor of the object at RootAddr reads
CountOf(root) ==
  CASE root.type = "ModuleRequest" -> root.request.fields.internal_module_ct
    [] root.type = "InternalModules" -> root.count
    [] root.type = "MemoryMapResponse" -> root.entry_ct
    [] root.type = "MpResponse" -> root.cpu_ct
    [] root.type = "ModuleResponse" -> root.module_ct
    [] root.type = "FramebufferResponse" -> root.framebuffer_ct
    [] root.type = "lib::MemmapResponse" -> root.entry_count

BaseOf(root) ==
  CASE root.type = "ModuleRequest" -> root.request.fields.internal_modules
    [] root.type = "InternalModules" -> root.modules
    [] root.type = "MemoryMapResponse" -> root.entries
    [] root.type = "MpResponse" -> root.cpus
    [] root.type = "ModuleResponse" -> root.modules
    [] root.type = "FramebufferResponse" -> root.framebuffers
    [] root.type = "lib::MemmapResponse" -> root.entries

\* C10: a counted-array accessor whose count is zero yields a view of length zero
\* for any base pointer, the null base pointer of ModuleRequest::new() and
\* InternalModules::EMPTY included, and does not dereference the base pointer.
C10_CountZeroIsEmptyView ==
  obs.op \in SliceOps /\ CountOf(heap[RootAddr]) = 0 =>
    /\ obs.result.tag = "slice"
    /\ obs.result.len = 0
    /\ BaseOf(heap[RootAddr]) \notin obs.derefs

\* C11: a counted-array accessor that returns a slice built it from the count and
\* the base pointer of the one response it was called on: the slice's length is
\* that response's count field, its data pointer is that response's base pointer,
\* and its i-th element is the i-th pointer of that response's array.
C11_SliceFromOneResponse ==
  obs.op \in SliceOps /\ obs.result.tag = "slice" =>
    LET root == heap[RootAddr]
    IN /\ obs.result.len = CountOf(root)
       /\ obs.result.ptr = BaseOf(root)
       /\ \A i \in 1..obs.result.len :
            slice_get(heap, obs.result, i) = heap[ArrAddr].elems[i]

C11_Witness ==
  /\ obs.op = "cpus"
  /\ obs.result.tag = "slice"
  /\ obs.result.len > 1
  /\ obs.result.ptr = ArrAddr
  /\ heap[ArrAddr].elems[1] # heap[ArrAddr].elems[2]

\* the value of the named constant with code n
ConstValue(kind, n) ==
  IF kind = "MemoryMapEntryType" THEN [discriminant |-> n] ELSE u64(n)

\* C12: reading an enumerated field (memory-region type, firmware type, paging
\* mode) gives a value for every stored code; the value equals a named constant
\* exactly when the code is that constant's code, and no other code decodes to
\* the same value, so an unnamed code stays distinguishable.
C12_EveryCodeDecodesDistinctly ==
  obs.op \in EnumKinds =>
    LET kind == obs.op
        code == heap[RootAddr].code
    IN /\ obs.result.tag = "value"
       /\ \A n \in NamedCodes[kind] :
            obs.result.value = ConstValue(kind, n) <=> code = u64(n)
       /\ \A other \in Codes \ {code} : \A o \in Decode(kind, other) :
            o.tag = "value" => o.value # obs.result.value

\* C13: for a marker built with with_revision(k), while the bootloader has left the
\* revision cell untouched is_supported() is true exactly when k = 0, and once the
\* bootloader has echoed revision m loaded_revision() is Some(m).
C13_RevisionGate ==
  /\ \A k \in BaseRevisions :
       BaseRevision_is_supported(BaseRevision_with_revision(k)) <=> k = 0
  /\ bootloader_wrote = None =>
       /\ req = BaseRevision_with_revision(req.revision)
       /\ obs.op = "is_supported" => obs.result = Some(req.revision = 0)
  /\ bootloader_wrote # None /\ obs.op = "loaded_revision" =>
       obs.result = bootloader_wrote

C13_Witness ==
  /\ phase = "run"
  /\ bootloader_wrote = Some(MaxBaseRev)
  /\ obs.op = "loaded_revision"
  /\ obs.result = Some(MaxBaseRev)

\* C14: every Framebuffer that FramebufferResponse::framebuffers() yields carries
\* the response's revision and the response's i-th framebuffer; modes() returns
\* None exactly when that revision is 0, reading neither mode_ct nor modes, and
\* with revision >= 1 returns a slice of exactly mode_ct video modes.
C14_ModesGatedByRevision ==
  LET resp == heap[RootAddr]
  IN /\ obs.op = "framebuffers().collect" =>
          /\ Len(obs.result.items) = resp.framebuffer_ct
          /\ \A i \in 1..resp.framebuffer_ct :
               /\ obs.result.items[i].revision = resp.revision
               /\ obs.result.items[i].inner = heap[resp.framebuffers].elems[i]
     /\ obs.op = "modes" =>
          /\ obs.result.tag = "none" <=> resp.revision = 0
          /\ resp.revision = 0 => obs.reads = {} /\ obs.derefs = {}
          /\ resp.revision >= 1 =>
               /\ obs.result.tag = "slice"
               /\ obs.derefs # {}
               /\ \A a \in obs.derefs :
                    /\ obs.result.len = unwrap(heap[a].v1).mode_ct
                    /\ obs.result.ptr = unwrap(heap[a].v1).modes

C14_Witness ==
  /\ obs.op = "modes"
  /\ heap[RootAddr].revision > 1
  /\ obs.result.tag = "slice"
  /\ obs.result.len = MaxLen

RequestFields == {"size", "mode", "max_mode", "min_mode", "flags", "entry_point"}
ModuleFields == {"path", "cmdline", "flags"}

\* what the accessor of an InternalModule field returns
ModuleGetter(h, f) ==
  IF f = "flags" THEN {InternalModule_flags(h[RootAddr])}
  ELSE {o.result : o \in InternalModule_text(h, h[RootAddr], f)}

\* what a value handed to an InternalModule setter reads back as
ModuleReadBack(f, v) ==
  IF f = "flags" THEN v ELSE Text(SubSeq(StaticStrings[v.ptr], 1, v.len - 1))

\* C15: a setter of either idiom makes the accessor of its field return exactly the
\* value set and leaves what every other accessor returns as it was (so each
\* accessor returns the value last set, and setters of different fields commute);
\* this for size, mode, max_mode, min_mode, flags, entry_point and internal_modules
\* of the requests and for path, cmdline and flags of InternalModule.
C15_SettersRoundTrip ==
  [][/\ \A f \in RequestFields : \A v \in FieldValues(f) :
          With(f, v) \/ Set(f, v) =>
            /\ request_get(req', f) = v
            /\ \A g \in DOMAIN req.fields \ {f} : request_get(req', g) = request_get(req, g)
            /\ heap' = heap
     /\ \A m \in StaticSlices :
          WithInternalModules(m) \/ SetInternalModules(m) =>
            /\ ModuleRequest_internal_modules(req') =
                 {[result |-> Slice(m.ptr, m.len), derefs |-> {}, reads |-> {}]}
            /\ heap' = heap
     /\ \A f \in ModuleFields : \A v \in ModuleValues(f) :
          ModuleWith(f, v) \/ ModuleSet(f, v) =>
            /\ ModuleGetter(heap', f) = {ModuleReadBack(f, v)}
            /\ \A g \in ModuleFields \ {f} : ModuleGetter(heap', g) = ModuleGetter(heap, g)
            /\ req' = req
     /\ obs'.op = "get" =>
          /\ req' = req /\ heap' = heap
          /\ unwrap(obs'.result)[2] = req.fields[unwrap(obs'.result)[1]]
     /\ \A f \in ModuleFields : obs'.op = "InternalModule::" \o f =>
          /\ req' = req /\ heap' = heap
          /\ {unwrap(obs'.result)} = ModuleGetter(heap, f)
     /\ \A f \in SetterFields(req) : \A g \in SetterFields(req) \ {f} :
        \A v \in FieldValues(f) : \A w \in FieldValues(g) :
          /\ setter_set(setter_set(req, f, v), g, w) = setter_set(setter_set(req, g, w), f, v)
          /\ setter_with(setter_with(req, f, v), g, w) = setter_with(setter_with(req, g, w), f, v)
    ]_vars

C15_Witness ==
  /\ obs.op = "get"
  /\ unwrap(obs.result)[1] = "max_mode"
  /\ unwrap(obs.result)[2] = MaxVal
  /\ req.fields.mode # MaxVal
  /\ heap[RootAddr].path = StrAddr + 2
  /\ heap[RootAddr].cmdline = StrAddr + 1

\* C16: on every request reached by any sequence of setters of both idioms, for
\* every configurable field and value, the in-place set_X(v) and the
\* ownership-returning with_X(v) give the same request, field for field.
C16_BuilderIdiomsAgree ==
  /\ \A f \in SetterFields(req) : \A v \in FieldValues(f) :
       /\ setter_set(req, f, v) = setter_with(req, f, v)
       /\ setter_with(req, f, v).fields[f] = v
  /\ req.kind = "ModuleRequest" =>
       \A m \in StaticSlices :
         /\ set_internal_modules(req, m) = with_internal_modules(req, m)
         /\ with_internal_modules(req, m).fields.internal_module_ct = m.len

C16_Witness ==
  /\ req.kind = "PagingModeRequest"
  /\ obs.op = "with"
  /\ req.fields.mode = MaxVal
  /\ req.fields.max_mode = MaxVal
  /\ req.fields.min_mode = MaxVal

\* the latest revision the claim names for each request type
LatestNamed(kind) == IF kind \in {"PagingModeRequest", "ModuleRequest"} THEN 1 ELSE 0

\* C17: with_revision(k) gives a request whose revision() is k, new() gives the
\* same request as with_revision(L) with L = 1 for PagingModeRequest and
\* ModuleRequest and 0 for every other type, and no setter changes revision().
C17_RevisionOfConstructors ==
  [][/\ \A kind \in DOMAIN request_rs :
          /\ \A k \in Revisions : request_revision(with_revision(kind, k)) = k
          /\ new(kind) = with_revision(kind, LatestNamed(kind))
     /\ obs'.op \in {"set", "with"} /\ req.api = "request" =>
          request_revision(req') = request_revision(req)
     /\ obs'.op = "revision" => obs'.result = Some(request_revision(req))
    ]_vars

C17_Witness ==
  /\ req.kind = "PagingModeRequest"
  /\ req.api = "request"
  /\ req = [new("PagingModeRequest") EXCEPT !.fields.mode = MaxVal]
  /\ obs.op = "revision"
  /\ obs.result = Some(1)

(***************************************************************************)
(* C18: for each secondary processor, once a function pointer has been     *)
(* written to its descriptor's goto_address with GotoAddress::write, no    *)
(* further GotoAddress::write on that descriptor happens and the slot      *)
(* never returns to null, neither in the writer's view nor in memory.      *)
(***************************************************************************)
C18_DispatchedAtMostOnce ==
  [][\A i \in CpuIds :
       (~is_bsp(heap, i) /\ Cpu_load(heap, store_buffer, CpuAddr(i), "goto_address") # null)
         => /\ \A func \in Functions : ~WriteGotoAddress(i, func)
            /\ Cpu_load(heap', store_buffer', CpuAddr(i), "goto_address") # null
            /\ heap[CpuAddr(i)].goto_address # null => heap'[CpuAddr(i)].goto_address # null]_vars

(***************************************************************************)
(* C19: GotoAddress::write publishes with at least release ordering.       *)
(* Right after write(func) the writing processor loads func from the slot; *)
(* and once a processor has started on a goto_address it observed, every   *)
(* store the boot processor issued before that write has reached shared    *)
(* memory, whatever the order in which stores and loads interleave.        *)
(***************************************************************************)
C19_WritePublishes ==
  [][/\ \A i \in CpuIds : \A func \in Functions :
          WriteGotoAddress(i, func)
            => Cpu_load(heap', store_buffer', CpuAddr(i), "goto_address") = func
     /\ \A i \in CpuIds :
          cores'[i].state = "running"
            => \A k \in 1..Len(store_buffer') : store_buffer'[k].stamp > cores'[i].saw]_vars

\* a processor runs on a write that was issued after a store to its extra field, and
\* finds that store in memory
C19_Witness ==
  \E i \in CpuIds :
    /\ cores[i].state = "running"
    /\ cores[i].saw = MaxStores
    /\ heap[cores[i].arg].extra = MaxVal

Written(i) ==
  \/ heap[CpuAddr(i)].stamp > 0
  \/ Pending(store_buffer, CpuAddr(i), "goto_address") # {}

(***************************************************************************)
(* C21: for every secondary processor, once GotoAddress::write has been    *)
(* called on its descriptor the processor eventually runs a function that  *)
(* was written there, handed its own descriptor; and a processor on whose  *)
(* descriptor write has not been called is parked.                         *)
(***************************************************************************)
C21_WrittenLeadsToRunning ==
  \A i \in CpuIds :
    /\ (Written(i) /\ ~is_bsp(heap, i))
         ~> (cores[i].state = "running" /\ cores[i].func \in Functions
               /\ cores[i].arg = CpuAddr(i))
    /\ []((~Written(i) /\ ~is_bsp(heap, i)) => cores[i].state = "parked")

\* one secondary processor runs the function written for it while another, never
\* written, is parked
C21_Witness ==
  \E i \in CpuIds : \E j \in CpuIds :
    /\ cores[i].state = "running"
    /\ cores[i].func = MaxFunc
    /\ ~Written(j)
    /\ cores[j].state = "parked"

(***************************************************************************)
(* C22: a call of get_response(), get_response_mut(), revision() or a      *)
(* response accessor that has been entered returns, answered request or    *)
(* not, and what it returns is absent or the value already published: the  *)
(* address the bootloader stored, the request's revision, the response's   *)
(* revision.                                                               *)
(***************************************************************************)
C22_CallsReturn ==
  \A op \in CallOps :
    (cores[1].state = "call" /\ cores[1].op = op)
      ~> /\ cores[1].state = "idle"
         /\ obs.op = op
         /\ \/ obs.result = None /\ bootloader_wrote = None
            \/ /\ op \in {"get_response", "get_response_mut"}
               /\ bootloader_wrote # None
               /\ obs.result = Some(unwrap(bootloader_wrote).addr)
            \/ op = "revision" /\ obs.result = Some(req.revision)
            \/ /\ op = "response.revision"
               /\ bootloader_wrote # None
               /\ obs.result = Some(unwrap(bootloader_wrote).content.revision)

\* after control transfer, get_response() has returned absent on an unanswered request
C22_Witness ==
  /\ phase = "run"
  /\ req.response = null
  /\ cores[1].state = "idle"
  /\ obs.op = "get_response"
  /\ obs.result = None

(***************************************************************************)
(* C23: whatever bytes the bootloader left in the memory a response points *)
(* to (bytes that are not UTF-8 included), a public accessor that          *)
(* dereferences no null address returns a value (a text, a reference) or   *)
(* an absent result: it never panics.                                      *)
(***************************************************************************)
C23_AccessorsNeverPanic ==
  (obs.op # "none" /\ null \notin obs.derefs) => obs.result.tag \in {"text", "ref", "none"}

(***************************************************************************)
(* C24: as long as the executable has stored nothing through entries_mut() *)
(* / memmap_mut(), every map that entries() / memmap() presents has its    *)
(* entries non-decreasing by base, and its usable and bootloader           *)
(* reclaimable entries 4096-aligned in base and length and pairwise        *)
(* disjoint.                                                               *)
(***************************************************************************)
C24_MapInvariantUntilWritten ==
  (obs.op \in {"entries", "memmap"} /\ obs.result.tag = "slice" /\ clock = 0)
    => MapInvariant(entries_view(heap, obs.result))

\* C24 as stated: the same in every reachable state, stores through the mutable view
\* included
C24_MapInvariantAlways ==
  (obs.op \in {"entries", "memmap"} /\ obs.result.tag = "slice")
    => MapInvariant(entries_view(heap, obs.result))

\* entries() presents a map of MaxLen entries, the first and last usable, at different bases
C24_Witness ==
  /\ obs.op = "entries"
  /\ clock = 0
  /\ obs.result.len = MaxLen
  /\ LET m == entries_view(heap, obs.result)
     IN /\ m[1].entry_type = USABLE
        /\ m[MaxLen].entry_type = USABLE
        /\ m[1].base < m[MaxLen].base

\* the 32 bits an Ipv4Addr was made from
RawOf(r) == r.octets[1] + 256 * r.octets[2] + 65536 * r.octets[3] + 16777216 * r.octets[4]

(***************************************************************************)
(* C25: tftp_ip, tftp_port, partition_idx, mbr_disk_id, entry_32 and       *)
(* entry_64 return None exactly when the raw field is 0 and otherwise Some *)
(* of the raw value; gpt_disk_id, gpt_partition_id and partition_uuid      *)
(* return None exactly when a, b, c and every byte of d are 0 and          *)
(* otherwise Some of the UUID unchanged.                                   *)
(***************************************************************************)
C25_ZeroIsAbsent ==
  obs.op # "none" =>
    LET raw == heap[RootAddr][obs.op]
    IN IF obs.op \in UuidFields
         THEN /\ (obs.result = None)
                   <=> (raw.a = 0 /\ raw.b = 0 /\ raw.c = 0 /\ \A k \in 1..8 : raw.d[k] = 0)
              /\ obs.result # None => obs.result = Some(raw)
         ELSE /\ (obs.result = None) <=> (raw = 0)
              /\ obs.result # None =>
                   IF obs.op = "tftp_ip" /\ obs.ipaddr
                     THEN RawOf(unwrap(obs.result)) = raw
                     ELSE obs.result = Some(raw)

\* partition_uuid() returned the UUID whose only non-zero part is the last byte of d
C25_Witness ==
  /\ obs.op = "partition_uuid"
  /\ obs.result # None
  /\ heap[RootAddr].partition_uuid.a = 0
  /\ heap[RootAddr].partition_uuid.b = 0
  /\ heap[RootAddr].partition_uuid.c = 0
  /\ heap[RootAddr].partition_uuid.d[8] = MaxVal

(***************************************************************************)
(* C26: at most one mutable reference to a response is live, and while it  *)
(* is live no other reference to that response, shared or mutable, is.     *)
(***************************************************************************)
C26_MutableViewIsExclusive ==
  \A v \in cores[1].held :
    v.kind = "mut" => \A w \in cores[1].held : (w.to = v.to) => w = v

(***************************************************************************)
(* C27: dispatches are independent.  A processor that starts runs the      *)
(* function found in its own descriptor's goto_address and is handed its   *)
(* own descriptor, and its start changes no other processor; a             *)
(* GotoAddress::write on one descriptor changes, when it is issued and     *)
(* when it reaches memory, neither the goto_address, the extra field nor   *)
(* the processor of any other descriptor.                                  *)
(***************************************************************************)
C27_DispatchesIndependent ==
  [][/\ \A i \in CpuIds :
          Start(i) => /\ cores'[i].func = heap[CpuAddr(i)].goto_address
                      /\ cores'[i].arg = CpuAddr(i)
                      /\ \A j \in CpuIds \ {i} : cores'[j] = cores[j]
     /\ \A i \in CpuIds : \A func \in Functions :
          WriteGotoAddress(i, func) =>
            \A j \in CpuIds \ {i} :
              /\ Cpu_load(heap', store_buffer', CpuAddr(j), "goto_address")
                   = Cpu_load(heap, store_buffer, CpuAddr(j), "goto_address")
              /\ Cpu_load(heap', store_buffer', CpuAddr(j), "extra")
                   = Cpu_load(heap, store_buffer, CpuAddr(j), "extra")
              /\ cores'[j] = cores[j]
     /\ \A k \in 1..MaxStores :
          StoreReachesMemory(k) =>
            \A j \in CpuIds :
              CpuAddr(j) # store_buffer[k].addr
                => (heap'[CpuAddr(j)] = heap[CpuAddr(j)] /\ cores'[j] = cores[j])]_vars

\* two secondary processors run, each the function written for it, and the functions differ
C27_Witness ==
  \E i \in CpuIds : \E j \in CpuIds :
    /\ i # j
    /\ cores[i].state = "running"
    /\ cores[j].state = "running"
    /\ cores[i].func # cores[j].func
    /\ cores[i].func = heap[CpuAddr(i)].goto_address
    /\ cores[j].func = heap[CpuAddr(j)].goto_address

\* the parts of a request a setter for the fields in changed must leave alone
SameExcept(r, after, changed) ==
  /\ after.id = r.id
  /\ after.revision = r.revision
  /\ after.response = r.response
  /\ after.kind = r.kind
  /\ DOMAIN after.fields = DOMAIN r.fields
  /\ \A g \in DOMAIN r.fields \ changed : after.fields[g] = r.fields[g]

(***************************************************************************)
(* C28: a setter for field f, in either idiom and in both request modules, *)
(* changes only f: id, revision, response slot and every other field keep  *)
(* their values.  The ModuleRequest setters change internal_module_ct and  *)
(* internal_modules together, to the length and the base pointer of the    *)
(* slice they are given.                                                   *)
(***************************************************************************)
C28_SetterFrame ==
  [][/\ \A f \in {"size", "mode", "max_mode", "min_mode", "flags", "entry_point"} :
          \A v \in FieldValues(f) :
            (With(f, v) \/ Set(f, v)) => SameExcept(req, req', {f})
     /\ \A f \in {"stack_size", "callback", "flags", "entry"} :
          \A v \in 0..MaxVal :
            Field(f, v) => SameExcept(req, req', {f})
     /\ \A m \in StaticSlices :
          (WithInternalModules(m) \/ SetInternalModules(m)) =>
            /\ SameExcept(req, req', {"internal_module_ct", "internal_modules"})
            /\ req'.fields.internal_module_ct = slice_len(m)
            /\ req'.fields.internal_modules = slice_as_ptr(m)]_vars

\* set_internal_modules has acted on an answered ModuleRequest, leaving the slot as it was
C28_Witness ==
  /\ obs.op = "set"
  /\ req.kind = "ModuleRequest"
  /\ req.response # null
  /\ req.fields.internal_module_ct = MaxLen

(***************************************************************************)
(* C29: for every stored signed timestamp t, negative ones included,       *)
(* timestamp() and boot_time() return a duration of t seconds.             *)
(***************************************************************************)
C29_TimestampIsStoredSeconds ==
  obs.op \in {"timestamp", "boot_time"} =>
    (obs.result.secs = heap[RootAddr].timestamp /\ obs.result.nanos = 0)

(***************************************************************************)
(* C30: for every pitch, height and bpp, Framebuffer::size() returns       *)
(* pitch x height, the bytes the framebuffer spans, without overflow.      *)
(***************************************************************************)
C30_SizeIsPitchTimesHeight ==
  obs.op = "size" => obs.result = Value(heap[RootAddr].pitch * heap[RootAddr].height)

====
